---- MODULE Spec2Model ----
(***************************************************************************)
(* A model of the reranking engine of dblplink-2.0                         *)
(* (src/src/entitylinker/entitylinker/candidate_reranker.py) and of the    *)
(* HTTP layer that calls it (src/src/entitylinker/non-streaming-api.py),   *)
(* and of the UI's submit handler                                          *)
(* (src/src/entitylinker/entitylinker/entitylinker.py).                    *)
(*                                                                         *)
(* Specifications.                                                         *)
(*  - Spec: one call of rerank_candidates.                                 *)
(*  - SpecService: the long-lived service answering requests in turn.      *)
(*  - SpecOverlap: two invocations of rerank_candidates that overlap.      *)
(*  - SpecScorer: compute_avg_yes_score at the level of tokens.            *)
(*  - SpecLinearise: linearise_neighbourhood on arbitrary rows.            *)
(*  - SpecRoutes: one request to one of the four routes, validated.       *)
(*  - SpecUI: the UI's send_text over a few submissions; SpecUILive adds   *)
(*    the fairness of its steps.                                           *)
(*                                                                         *)
(* Conventions.                                                            *)
(*  - Log-probabilities and scores are exact rationals in units of one     *)
(*    tenth: the per-line value -1 stands for -0.1, and a score is a       *)
(*    reduced fraction [num, den], so the sentinel -1.0 is [-10, 1].       *)
(*  - Python lists are sequences; a candidate (uri, label, type) is a      *)
(*    3-tuple; a result entry [score, [uri, label, type, sentence]] is     *)
(*    <<score, <<uri, label, type, sentence>>>>.                           *)
(*  - The em dash of the linearized line is written "--" (ASCII).          *)
(***************************************************************************)
EXTENDS Integers, Sequences, FiniteSets, Bags, TLC

VARIABLES
    text,               \* argument: the question
    spans,              \* argument: list of {label, type}
    entity_candidates,  \* argument: list (per span) of lists of candidates
    text_match_only,    \* argument: the mode flag
    kg,                 \* environment: which graph the endpoint serves
    yes_logprob,        \* environment: the backend's per-prompt 'yes' log-probs
    pc,                 \* position inside rerank_candidates
    si,                 \* index of the span the zip loop is at
    ci,                 \* index of the candidate the inner loop is at
    entity_scores,      \* local: scored candidates of the current span
    sorted_spans,       \* local: per-span results so far
    response_left,      \* local of fetch_one_hop: body of the first response
    response_right,     \* local of fetch_one_hop: body of the second response
    entity_neighborhood,\* local: linearized lines of the current candidate
    full_inputs,        \* local of compute_avg_yes_score: the batch of prompts
    scores,             \* local of compute_avg_yes_score: per-line log-probs
    score_evidence,     \* the pair compute_avg_yes_score returned
    final_result,       \* the returned dictionary, NoResult until returned
    error,              \* the exception that left rerank_candidates, or "none"
    calls,              \* history: the calls and requests made, in order
    \* The HTTP layer (non-streaming-api.py).
    route,              \* the route of the request being handled
    http_pc,            \* position inside the handler, "idle" between requests
    data,               \* request.get_json(): the body of the request
    caught,             \* the exception on its way to the handler's except
    reply,              \* the last response sent: status and JSON body
    served,             \* history: the number of responses sent
    raised_in,          \* history: the stage that raised during this request
    prev,               \* history: the rerank_candidates call that returned last
    \* The tokenizer held by the one EntityLinker (entity_linker.py).
    pad_token,          \* tokenizer.pad_token
    \* Two invocations of rerank_candidates that overlap in time.
    running,            \* the invocation whose frame the variables above hold
    parked,             \* the frame of the other invocation, NoFrameParked if none
    alone,              \* history: what the first invocation returned run alone
    \* compute_avg_yes_score at the level of tokens (lines 43-65).
    scorer_pc,          \* position inside compute_avg_yes_score
    padding_side,       \* tokenizer.padding_side
    prompt_lens,        \* the number of tokens of each prompt of the batch
    attention_mask,     \* inputs.attention_mask: one row of 0/1 per prompt
    read_at,            \* history: the position read for each prompt so far
    mean_taken,         \* what np.mean(scores) gave: "number", "nan", "none"
    scorer_exit,        \* how the call ended: "returned", an exception, "none"
    \* One request posted to one of the four routes (non-streaming-api.py).
    request,            \* the route and the JSON body posted, NoRequest if none
    \* The state of the UI and its submit handler send_text (entitylinker.py).
    self_text,          \* State.text
    self_spans,         \* State.spans
    self_candidates,    \* State.candidates
    final_results,      \* State.final_results
    updates,            \* State.updates
    progress,           \* State.progress
    is_loading,         \* State.is_loading
    error_message,      \* State.error_message
    ui_pc,              \* position inside send_text, "idle" when not running
    candidates,         \* local of send_text, Unbound until assigned
    sent,               \* history: the requests this run has sent, in order
    failed,             \* history: the stage of this run whose except ran
    stored,             \* history: the last run that stored final results
    runs                \* history: the number of runs of send_text started

\* The state of the HTTP layer.
service_vars == <<route, http_pc, data, caught, reply, served, raised_in, prev>>

\* The state of the overlap of two invocations.
overlap_vars == <<running, parked, alone>>

\* The state of the scorer at the level of tokens.
scorer_vars == <<scorer_pc, padding_side, prompt_lens, attention_mask, read_at,
                 mean_taken, scorer_exit>>

\* The request whose validation is followed.
routes_vars == <<request>>

\* The state of the UI.
ui_vars == <<self_text, self_spans, self_candidates, final_results, updates,
             progress, is_loading, error_message, ui_pc, candidates, sent,
             failed, stored, runs>>

aside == <<overlap_vars, scorer_vars, routes_vars, ui_vars>>

elsewhere == <<service_vars, pad_token, aside>>

vars == <<text, spans, entity_candidates, text_match_only, kg, yes_logprob,
          pc, si, ci, entity_scores, sorted_spans, response_left,
          response_right, entity_neighborhood, full_inputs, scores,
          score_evidence, final_result, error, calls, elsewhere>>

-----------------------------------------------------------------------------
(* Bounds of the explored inputs. *)

MaxSpans == 2

MaxCands == 2

-----------------------------------------------------------------------------
(* Generic helpers. *)

Min(a, b) == IF a <= b THEN a ELSE b

Abs(n) == IF n < 0 THEN -n ELSE n

RECURSIVE Gcd(_, _)
Gcd(a, b) == IF b = 0 THEN a ELSE Gcd(b, a % b)

RECURSIVE SumSeq(_)
SumSeq(s) == IF s = <<>> THEN 0 ELSE Head(s) + SumSeq(Tail(s))

\* The rational num/den (den > 0) as a reduced fraction.
Frac(num, den) ==
    LET g == Gcd(Abs(num), den)
    IN  [num |-> num \div g, den |-> den \div g]

\* a >= b on reduced fractions.
Geq(a, b) == a.num * b.den >= b.num * a.den

Gt(a, b) == a.num * b.den > b.num * a.den

SeqsUpTo(S, n) == UNION {[1..k -> S] : k \in 0..n}

NoResult == [none |-> TRUE]

-----------------------------------------------------------------------------
(* CandidateReranker.format_input: the prompt, built by concatenation. *)

format_input(mention, context, entity_name, entity_info_line) ==
    "You are an assistant linking mentions to entities.\n"
    \o "Document: " \o context \o "\n"
    \o "Mention: " \o mention \o "\n"
    \o "Candidate Entity: " \o entity_name \o "\n"
    \o "Entity Info: " \o entity_info_line \o "\n"
    \o "Question: Does the mention belong to this entity? Answer: yes/no\n"
    \o "Answer:"

-----------------------------------------------------------------------------
(* CandidateReranker.linearise_neighbourhood and its helper.               *)

Whitespace == {" ", "\t", "\n", "\r"}

RECURSIVE LStrip(_)
LStrip(s) ==
    IF Len(s) > 0 /\ SubSeq(s, 1, 1) \in Whitespace
    THEN LStrip(SubSeq(s, 2, Len(s)))
    ELSE s

RECURSIVE RStrip(_)
RStrip(s) ==
    IF Len(s) > 0 /\ SubSeq(s, Len(s), Len(s)) \in Whitespace
    THEN RStrip(SubSeq(s, 1, Len(s) - 1))
    ELSE s

\* str.strip()
Strip(s) == RStrip(LStrip(s))

\* sub in s
Contains(s, sub) ==
    \E k \in 1..(Len(s) - Len(sub) + 1) : SubSeq(s, k, k + Len(sub) - 1) = sub

\* binding.get(key, {}).get('value', '')
GetValue(binding, key) ==
    IF key \in DOMAIN binding
    THEN IF "value" \in DOMAIN binding[key] THEN binding[key].value ELSE ""
    ELSE ""

\* The optional line extract_triple returns: None, or a string.
None == [is_none |-> TRUE, value |-> ""]

Some(line) == [is_none |-> FALSE, value |-> line]

\* Python truthiness of an optional string: neither None nor "".
Truthy(opt) == ~opt.is_none /\ opt.value # ""

\* extract_triple without the .strip() calls.
extract_triple_unstripped(binding, s_key, p_key, o_key) ==
    LET s == GetValue(binding, s_key)
        p == GetValue(binding, p_key)
        o == GetValue(binding, o_key)
    IN  IF Contains(s, "_:bn") \/ Contains(o, "_:bn")
        THEN None
        ELSE IF s # "" /\ p # "" /\ o # ""
             THEN Some(s \o " -- " \o p \o " -- " \o o)
             ELSE None

\* extract_triple: the line of a row, or None when the row is dropped.
extract_triple(binding, s_key, p_key, o_key) ==
    LET s == Strip(GetValue(binding, s_key))
        p == Strip(GetValue(binding, p_key))
        o == Strip(GetValue(binding, o_key))
    IN  IF Contains(s, "_:bn") \/ Contains(o, "_:bn")
        THEN None
        ELSE IF s # "" /\ p # "" /\ o # ""
             THEN Some(s \o " -- " \o p \o " -- " \o o)
             ELSE None

\* One of the two loops of linearise_neighbourhood: the kept lines of the
\* rows, in row order.
RECURSIVE TriplesOf(_, _)
TriplesOf(bindings, p_key) ==
    IF bindings = <<>> THEN <<>>
    ELSE LET triple == extract_triple(Head(bindings), "sLabel", p_key, "oLabel")
         IN  (IF Truthy(triple) THEN <<triple.value>> ELSE <<>>)
             \o TriplesOf(Tail(bindings), p_key)

\* A lineariser that does not add a line that is there already.
RECURSIVE Deduplicated(_)
Deduplicated(lines) ==
    IF lines = <<>> THEN <<>>
    ELSE LET front == Deduplicated(SubSeq(lines, 1, Len(lines) - 1))
             last  == lines[Len(lines)]
         IN  IF \E k \in 1..Len(front) : front[k] = last
             THEN front ELSE Append(front, last)

linearise_neighbourhood_deduplicated(left_json, right_json) ==
    Deduplicated(TriplesOf(left_json.results.bindings, "p")
                 \o TriplesOf(right_json.results.bindings, "pLabel"))

linearise_neighbourhood(left_json, right_json) ==
    TriplesOf(left_json.results.bindings, "p")
    \o TriplesOf(right_json.results.bindings, "pLabel")

-----------------------------------------------------------------------------
(* CandidateReranker.compute_avg_yes_score: the aggregation of the per-line *)
(* log-probabilities (lines 62-65).                                        *)

\* float(np.mean(scores))
Mean(sc) == Frac(SumSeq(sc), Len(sc))

\* max(scores)
MaxOf(sc) == CHOOSE m \in {sc[k] : k \in 1..Len(sc)} :
                 \A k \in 1..Len(sc) : sc[k] <= m

\* scores.index(v): the first position holding v
IndexOf(sc, v) == CHOOSE k \in 1..Len(sc) :
                      sc[k] = v /\ \A l \in 1..(k - 1) : sc[l] # v

\* A scorer that keeps the best line's value instead of the mean.
avg_score_max(sc) == Frac(MaxOf(sc), 1)

avg_score(sc) == Mean(sc)

\* The last position holding the maximum instead of the first.
best_index_last(sc) ==
    CHOOSE k \in 1..Len(sc) :
        sc[k] = MaxOf(sc) /\ \A l \in (k + 1)..Len(sc) : sc[l] # MaxOf(sc)

\* best_index = scores.index(max(scores))
best_index(sc) == IndexOf(sc, MaxOf(sc))

-----------------------------------------------------------------------------
(* list.sort(key=lambda x: x[0], reverse=True): a stable sort, descending  *)
(* by score; elements with equal scores keep their order.                  *)

RECURSIVE InsertDesc(_, _)
InsertDesc(sorted, e) ==
    IF sorted = <<>> THEN <<e>>
    ELSE IF Geq(Head(sorted)[1], e[1])
         THEN <<Head(sorted)>> \o InsertDesc(Tail(sorted), e)
         ELSE <<e>> \o sorted

\* A descending sort that is not stable: equal scores end up reversed.
RECURSIVE InsertDescBeforeEqual(_, _)
InsertDescBeforeEqual(sorted, e) ==
    IF sorted = <<>> THEN <<e>>
    ELSE IF Gt(Head(sorted)[1], e[1])
         THEN <<Head(sorted)>> \o InsertDescBeforeEqual(Tail(sorted), e)
         ELSE <<e>> \o sorted

RECURSIVE SortDescUnstable(_)
SortDescUnstable(l) ==
    IF l = <<>> THEN <<>>
    ELSE InsertDescBeforeEqual(SortDescUnstable(SubSeq(l, 1, Len(l) - 1)),
                               l[Len(l)])

RECURSIVE SortDesc(_)
SortDesc(l) ==
    IF l = <<>> THEN <<>>
    ELSE InsertDesc(SortDesc(SubSeq(l, 1, Len(l) - 1)), l[Len(l)])

-----------------------------------------------------------------------------
(* The inputs explored.                                                    *)

Question == "which papers in neurips was authored by Biemann?"

UriA == "https://dblp.org/pid/306/6142"

UriB == "https://dblp.org/pid/20/6100"

URIs == {UriA, UriB}

CandA == <<UriA, "Chris Biemann", "https://dblp.org/rdf/schema#Person">>

CandB == <<UriB, "C. Biemann", "https://dblp.org/rdf/schema#Creator">>

Candidates == {CandA, CandB}

\* The k-th span of a request: the two spans of the source's example,
\* alternating.
SpanAt(k) == IF k % 2 = 1 THEN [label |-> "Biemann", type |-> "person"]
                          ELSE [label |-> "NeurIPS", type |-> "venue"]

SpanLists == {[k \in 1..n |-> SpanAt(k)] : n \in 0..MaxSpans}

CandidateLists == SeqsUpTo(SeqsUpTo(Candidates, MaxCands), MaxSpans)

-----------------------------------------------------------------------------
(* The environment: the graph endpoint and the scoring backend.            *)

Val(v) == [type |-> "literal", value |-> v]

\* The rows the endpoint serves for a URI and a direction, in graph G1
\* (UriB has no usable row) and in graph G2 (UriB has two usable rows).
Rows(g, uri, dir) ==
    IF uri = UriA /\ dir = "left" THEN
        << [sLabel |-> Val("Chris Biemann"),
            p |-> Val("https://dblp.org/rdf/schema#affiliation"),
            oLabel |-> Val(" Universitaet Hamburg ")],
           [sLabel |-> Val("Chris Biemann"),
            p |-> Val("https://dblp.org/rdf/schema#orcid"),
            oLabel |-> Val("_:bn17")],
           [sLabel |-> Val("Chris Biemann"),
            p |-> Val("https://dblp.org/rdf/schema#primaryCreatorName"),
            oLabel |-> Val("Chris Biemann")] >>
    ELSE IF uri = UriA /\ dir = "right" THEN
        << [sLabel |-> Val("Text Mining"), oLabel |-> Val("Chris Biemann")],
           [sLabel |-> Val("Structure Discovery"),
            pLabel |-> Val("authored by\n"),
            oLabel |-> Val("Chris Biemann")] >>
    ELSE IF uri = UriB /\ dir = "left" THEN
        IF g = "G1"
        THEN << [sLabel |-> Val("C. Biemann"),
                 p |-> Val("https://dblp.org/rdf/schema#homepage"),
                 oLabel |-> Val("   ")],
                [p |-> Val("https://dblp.org/rdf/schema#orcid"),
                 oLabel |-> Val("0000")] >>
        ELSE << [sLabel |-> Val("C. Biemann"),
                 p |-> Val("https://dblp.org/rdf/schema#homepage"),
                 oLabel |-> Val("biemann.example")] >>
    ELSE
        IF g = "G1"
        THEN << >>
        ELSE << [sLabel |-> Val("_:bn3"),
                 pLabel |-> Val("signature of"),
                 oLabel |-> Val("C. Biemann")],
                [sLabel |-> Val("Wortschatz"),
                 pLabel |-> Val("authored by"),
                 oLabel |-> Val("C. Biemann")] >>

\* The body of a response: the JSON the endpoint serves, or something that
\* is not JSON.
OkBody(g, uri, dir) ==
    [kind |-> "json", json |-> [results |-> [bindings |-> Rows(g, uri, dir)]]]

NotJsonBody == [kind |-> "not_json", json |-> [message |-> ""]]

NoResponse == [kind |-> "none", json |-> [message |-> ""]]

Bodies(g, uri, dir) == {OkBody(g, uri, dir), NotJsonBody}

\* Per-line 'yes' log-probabilities, in tenths.
LogProbs == {-3, -2, -1}

\* A backend: for the batch of prompts about an entity name, the 'yes'
\* log-probability of each prompt, by position in the batch.
Backend(a, b) == [u \in URIs |-> IF u = UriA THEN a ELSE b]

FixtureEnvs ==
    { <<"G1", Backend(<<-1, -3, -2>>, <<-2, -2>>)>>,
      <<"G2", Backend(<<-1, -3, -2>>, <<-2, -2>>)>> }

AllEnvs ==
    { <<"G1", Backend(a, <<-2, -2>>)>> : a \in [1..3 -> LogProbs] }
    \cup { <<"G2", Backend(a, b)>> :
              a \in [1..3 -> LogProbs], b \in [1..2 -> LogProbs] }

-----------------------------------------------------------------------------
(* The state after the call of rerank_candidates has been made.            *)

\* The arguments the callers of rerank_candidates can pass: /link_entities
\* passes one candidate list per detected span (possibly no span at all)
\* and the request's flag, /get_final_result passes whatever non-empty
\* lists the request holds and leaves the flag at its default.
CallerCanPass(sp, cands, flag) ==
    IF Len(sp) = Len(cands) THEN TRUE
    ELSE sp # <<>> /\ cands # <<>> /\ ~flag

\* The HTTP layer between requests: nothing received, nothing sent yet.
NoData == [question |-> "", spans |-> <<>>, entity_candidates |-> <<>>,
           text_match_only |-> FALSE]

NoReply == [status |-> 0, json |-> [kind |-> "none", error |-> "",
                                    result |-> NoResult]]

NoPrev == [none |-> TRUE, text |-> "", spans |-> <<>>,
           entity_candidates |-> <<>>, text_match_only |-> FALSE,
           pad_token |-> "", result |-> NoResult]

\* tokenizer.pad_token as AutoTokenizer.from_pretrained leaves it, and
\* tokenizer.eos_token.
PretrainedPadToken == "pad_token of the pretrained tokenizer"

EosToken == "eos_token"

TokenizerAsLoaded == pad_token = PretrainedPadToken

\* One invocation at a time: no other frame.
NoFrameParked == [none |-> TRUE]

NoOverlap ==
    /\ running = 1
    /\ parked = NoFrameParked
    /\ alone = NoResult

\* No batch is being scored at the level of tokens.
NoBatch ==
    /\ scorer_pc = "idle"
    /\ padding_side = "right"
    /\ prompt_lens = <<>>
    /\ attention_mask = <<>>
    /\ read_at = <<>>
    /\ mean_taken = "none"
    /\ scorer_exit = "none"

\* data.get(key) of a body that holds the key, and of one that does not; the
\* value of the latter is only a placeholder of the field's type.
Given(v) == [given |-> TRUE, value |-> v]

Missing(empty) == [given |-> FALSE, value |-> empty]

NoRequest == [route |-> "none",
              question |-> Missing(""), spans |-> Missing(<<>>),
              entity_candidates |-> Missing(<<>>),
              text_match_only |-> Missing(FALSE)]

\* No request is being followed through its route.
NoRequestPosted == request = NoRequest

\* A local name of send_text that has not been assigned.
Unbound == [bound |-> FALSE, value |-> <<>>]

\* The UI as it is loaded (entitylinker.py lines 37-47), send_text not
\* running.
UiAsLoaded ==
    /\ self_text = ""
    /\ self_spans = <<>>
    /\ self_candidates = <<>>
    /\ final_results = <<>>
    /\ updates = <<>>
    /\ progress = 0
    /\ is_loading = FALSE
    /\ error_message = ""
    /\ ui_pc = "idle"
    /\ candidates = Unbound
    /\ sent = <<>>
    /\ failed = "none"
    /\ stored = 0
    /\ runs = 0

HttpLayerAtRest ==
    /\ route = "none"
    /\ http_pc = "idle"
    /\ data = NoData
    /\ caught = "none"
    /\ reply = NoReply
    /\ served = 0
    /\ raised_in = "none"
    /\ prev = NoPrev

\* A direct call of rerank_candidates: either any request within the bounds
\* against one of a few environments, or the one-span request over both
\* candidates against every environment.
Init ==
    /\ HttpLayerAtRest
    /\ TokenizerAsLoaded
    /\ NoOverlap
    /\ UiAsLoaded
    /\ NoRequestPosted
    /\ NoBatch
    /\ text = Question
    /\ \/ /\ text_match_only \in BOOLEAN
          /\ spans \in SpanLists
          /\ entity_candidates \in CandidateLists
          /\ CallerCanPass(spans, entity_candidates, text_match_only)
          /\ \E env \in IF text_match_only
                        THEN {<<"G1", Backend(<<-1, -3, -2>>, <<-2, -2>>)>>}
                        ELSE FixtureEnvs :
                /\ kg = env[1]
                /\ yes_logprob = env[2]
       \/ /\ text_match_only = FALSE
          /\ spans = <<SpanAt(1)>>
          /\ entity_candidates \in {<<<<CandA, CandB>>>>, <<<<CandB, CandA>>>>}
          /\ \E env \in AllEnvs :
                /\ kg = env[1]
                /\ yes_logprob = env[2]
    /\ pc = "start"
    /\ si = 1
    /\ ci = 1
    /\ entity_scores = <<>>
    /\ sorted_spans = <<>>
    /\ response_left = NoResponse
    /\ response_right = NoResponse
    /\ entity_neighborhood = <<>>
    /\ full_inputs = <<>>
    /\ scores = <<>>
    /\ score_evidence = <<>>
    /\ final_result = NoResult
    /\ error = "none"
    /\ calls = <<>>

inputs == <<text, spans, entity_candidates, text_match_only, kg, yes_logprob>>

fetch_locals == <<response_left, response_right>>

score_locals == <<entity_neighborhood, full_inputs, scores, score_evidence>>

\* zip(spans, entity_candidates) pairs by position and stops at the shorter.
ZipLen == Min(Len(spans), Len(entity_candidates))

\* The flag ignored: the scoring branch is always taken.
TextMatchBranchIgnored == FALSE

\* if text_match_only:
TextMatchBranch == text_match_only

\* An uncaught exception leaves rerank_candidates: its frame is gone and
\* nothing is returned.
Raise(exc) ==
    /\ pc' = "raised"
    /\ error' = exc
    /\ si' = 1
    /\ ci' = 1
    /\ entity_scores' = <<>>
    /\ sorted_spans' = <<>>
    /\ response_left' = NoResponse
    /\ response_right' = NoResponse
    /\ entity_neighborhood' = <<>>
    /\ full_inputs' = <<>>
    /\ scores' = <<>>
    /\ score_evidence' = <<>>
    /\ final_result' = NoResult

-----------------------------------------------------------------------------
(* rerank_candidates, text_match_only branch (lines 154-162).              *)

\* The score the branch's comment announces (1.0) instead of -1.0.
TextMatchScoresOne(entity_uris) ==
    [k \in 1..Len(entity_uris) |->
        <<Frac(10, 1),
          <<entity_uris[k][1], entity_uris[k][2], entity_uris[k][3], "">>>>]

\* The inner loop: one entry per candidate, in order.
TextMatchScores(entity_uris) ==
    [k \in 1..Len(entity_uris) |->
        <<Frac(-10, 1),
          <<entity_uris[k][1], entity_uris[k][2], entity_uris[k][3], "">>>>]

TextMatchSpans ==
    [k \in 1..ZipLen |->
        [label  |-> spans[k].label,
         result |-> TextMatchScores(entity_candidates[k]),
         type   |-> spans[k].type]]

RerankTextMatchOnly ==
    /\ pc = "start"
    /\ TextMatchBranch
    /\ sorted_spans' = TextMatchSpans
    /\ pc' = "assemble"
    /\ UNCHANGED <<inputs, elsewhere,
                   si, ci, entity_scores, fetch_locals, score_locals,
                   final_result, error, calls>>

-----------------------------------------------------------------------------
(* rerank_candidates, scoring branch (lines 163-187).                      *)

EnterScoring ==
    /\ pc = "start"
    /\ ~TextMatchBranch
    /\ pc' = "span_loop"
    /\ UNCHANGED <<inputs, elsewhere,
                   si, ci, entity_scores, sorted_spans, fetch_locals,
                   score_locals, final_result, error, calls>>

\* The list of the span before, as if entity_scores were created once
\* before the loop over the spans.
EntityScoresOfLastSpan == entity_scores

\* entity_scores = [] (line 165)
FreshEntityScores == <<>>

\* The loop as if zip padded the shorter list: a span without a candidate
\* list still gets an entry, with an empty result list.
SpanLoopPadded ==
    /\ pc = "span_loop"
    /\ IF si <= ZipLen
       THEN /\ entity_scores' = FreshEntityScores
            /\ ci' = 1
            /\ pc' = "cand_loop"
            /\ UNCHANGED <<si, sorted_spans>>
       ELSE IF si <= Len(spans)
       THEN /\ sorted_spans' = Append(sorted_spans,
                                  [label  |-> spans[si].label,
                                   result |-> <<>>,
                                   type   |-> spans[si].type])
            /\ si' = si + 1
            /\ UNCHANGED <<pc, entity_scores, ci>>
       ELSE /\ pc' = "assemble"
            /\ UNCHANGED <<si, sorted_spans, entity_scores, ci>>
    /\ UNCHANGED <<inputs, elsewhere,
                   fetch_locals, score_locals, final_result, error, calls>>

\* for span, entity_uris in zip(spans, entity_candidates): entity_scores = []
SpanLoop ==
    /\ pc = "span_loop"
    /\ IF si <= ZipLen
       THEN /\ entity_scores' = FreshEntityScores
            /\ ci' = 1
            /\ pc' = "cand_loop"
       ELSE /\ pc' = "assemble"
            /\ UNCHANGED <<entity_scores, ci>>
    /\ UNCHANGED <<inputs, elsewhere,
                   si, sorted_spans, fetch_locals, score_locals,
                   final_result, error, calls>>

\* The sort left out.
SortedScoresUnsorted(l) == l

\* entity_scores.sort(key=lambda x: x[0], reverse=True)
SortedScores(l) == SortDesc(l)

\* for entity_uri in entity_uris: ... fetch_one_hop(entity_uri); after the
\* last candidate the span's list is sorted and appended.
CandLoop ==
    /\ pc = "cand_loop"
    /\ IF ci <= Len(entity_candidates[si])
       THEN /\ calls' = Append(calls, <<"fetch_one_hop", si, ci>>)
            /\ pc' = "get_left"
            /\ UNCHANGED <<si, ci, entity_scores, sorted_spans>>
       ELSE /\ sorted_spans' = Append(sorted_spans,
                                  [label  |-> spans[si].label,
                                   result |-> SortedScores(entity_scores),
                                   type   |-> spans[si].type])
            /\ si' = si + 1
            /\ pc' = "span_loop"
            /\ UNCHANGED <<ci, entity_scores, calls>>
    /\ UNCHANGED <<inputs, elsewhere,
                   fetch_locals, score_locals, final_result, error>>

\* A fetcher that catches the error and issues the request again.
RetryRequest(exc) ==
    /\ pc' = pc
    /\ UNCHANGED <<si, ci, entity_scores, sorted_spans, response_left,
                   response_right, entity_neighborhood, full_inputs, scores,
                   score_evidence, final_result, error>>

\* What a failed request does: the exception propagates.
OnRequestError(exc) == Raise(exc)

\* response_left = requests.get(...) (line 109)
GetLeft ==
    /\ pc = "get_left"
    /\ \/ /\ calls' = Append(calls, <<"GET", si, ci, "left", "ConnectionError">>)
          /\ OnRequestError("ConnectionError")
       \/ \E body \in Bodies(kg, entity_candidates[si][ci][1], "left") :
             /\ calls' = Append(calls, <<"GET", si, ci, "left", body.kind>>)
             /\ response_left' = body
             /\ pc' = "get_right"
             /\ UNCHANGED <<si, ci, entity_scores, sorted_spans,
                            response_right, score_locals, final_result, error>>
    /\ UNCHANGED <<inputs, elsewhere>>

\* response.json(): raises when the body is not JSON.
IsJson(response) == response.kind = "json"

\* response_right = requests.get(...) (line 110), then
\* left_json = response_left.json(); right_json = response_right.json()
\* (lines 112-115).
GetRight ==
    /\ pc = "get_right"
    /\ \/ /\ calls' = Append(calls, <<"GET", si, ci, "right", "ConnectionError">>)
          /\ OnRequestError("ConnectionError")
       \/ \E body \in Bodies(kg, entity_candidates[si][ci][1], "right") :
             /\ calls' = Append(calls, <<"GET", si, ci, "right", body.kind>>)
             /\ IF ~IsJson(response_left) \/ ~IsJson(body)
                THEN Raise("JSONDecodeError")
                ELSE /\ response_right' = body
                     /\ pc' = "linearise"
                     /\ UNCHANGED <<si, ci, entity_scores, sorted_spans,
                                    response_left, score_locals, final_result,
                                    error>>
    /\ UNCHANGED <<inputs, elsewhere>>

\* A fallback entry with score 0 for a candidate without neighborhood.
AppendZeroScore(es, entity_uri) ==
    Append(es, <<Frac(0, 1),
                 <<entity_uri[1], entity_uri[2], entity_uri[3], "">>>>)

\* if not entity_neighborhood: continue -- entity_scores is left as it is.
OnEmptyNeighborhood(es, entity_uri) == es

\* A loop that starts the fetch of the next candidate before the current
\* one is scored.
LinearisePrefetching ==
    /\ pc = "linearise"
    /\ LET lines == linearise_neighbourhood(response_left.json,
                                            response_right.json)
       IN  /\ entity_neighborhood' = lines
           /\ IF lines = <<>>
              THEN /\ calls' = Append(calls,
                                     <<"linearise_neighbourhood", si, ci>>)
                   /\ entity_scores' =
                         OnEmptyNeighborhood(entity_scores,
                                             entity_candidates[si][ci])
                   /\ ci' = ci + 1
                   /\ pc' = "cand_loop"
              ELSE /\ calls' = calls \o
                         << <<"linearise_neighbourhood", si, ci>>,
                            <<"fetch_one_hop", si, ci + 1>> >>
                   /\ pc' = "score"
                   /\ UNCHANGED <<ci, entity_scores>>
    /\ UNCHANGED <<si, sorted_spans, fetch_locals, full_inputs, scores,
                   score_evidence, final_result, error>>
    /\ UNCHANGED <<inputs, elsewhere>>

\* entity_neighborhood = self.linearise_neighbourhood(left, right);
\* if not entity_neighborhood: continue
Linearise ==
    /\ pc = "linearise"
    /\ calls' = Append(calls, <<"linearise_neighbourhood", si, ci>>)
    /\ LET lines == linearise_neighbourhood(response_left.json,
                                            response_right.json)
       IN  /\ entity_neighborhood' = lines
           /\ IF lines = <<>>
              THEN /\ entity_scores' =
                         OnEmptyNeighborhood(entity_scores,
                                             entity_candidates[si][ci])
                   /\ ci' = ci + 1
                   /\ pc' = "cand_loop"
              ELSE /\ pc' = "score"
                   /\ UNCHANGED <<ci, entity_scores>>
    /\ UNCHANGED <<si, sorted_spans, fetch_locals, full_inputs, scores,
                   score_evidence, final_result, error>>
    /\ UNCHANGED <<inputs, elsewhere>>

\* full_inputs = [self.format_input(mention, context, entity_name, line)
\*                for line in entity_info_lines]
FullInputs(mention, context, entity_name, entity_info_lines) ==
    [k \in 1..Len(entity_info_lines) |->
        format_input(mention, context, entity_name, entity_info_lines[k])]

\* The backend's answer for a batch of prompts about entity_name: the 'yes'
\* log-probability read for each prompt (lines 43-60).
YesLogProbs(entity_name, prompts) ==
    [k \in 1..Len(prompts) |-> yes_logprob[entity_name][k]]

\* The pair compute_avg_yes_score returns (lines 62-65).
AvgAndBest(sc, entity_info_lines) ==
    <<avg_score(sc), entity_info_lines[best_index(sc)]>>

\* The name rerank_candidates passes as entity_name (line 181).
EntityNameArg(entity_uri) == entity_uri[1]

\* score, evidence_sentence = self.compute_avg_yes_score(span['label'], text,
\*                                   entity_uri[0], entity_neighborhood)
Score ==
    /\ pc = "score"
    /\ LET entity_name == EntityNameArg(entity_candidates[si][ci])
           prompts     == FullInputs(spans[si].label, text, entity_name,
                                     entity_neighborhood)
           sc          == YesLogProbs(entity_name, prompts)
       IN  /\ calls' = Append(calls, <<"compute_avg_yes_score", si, ci>>)
           /\ full_inputs' = prompts
           /\ scores' = sc
           /\ score_evidence' = AvgAndBest(sc, entity_neighborhood)
    /\ pc' = "scored"
    /\ UNCHANGED <<inputs, elsewhere,
                   si, ci, entity_scores, sorted_spans, fetch_locals,
                   entity_neighborhood, final_result, error>>

\* entity_scores.append([score, [entity_uri[0], entity_uri[1], entity_uri[2],
\*                               evidence_sentence]])
AppendScore ==
    /\ pc = "scored"
    /\ LET entity_uri == entity_candidates[si][ci]
       IN  entity_scores' = Append(entity_scores,
               <<score_evidence[1],
                 <<entity_uri[1], entity_uri[2], entity_uri[3],
                   score_evidence[2]>>>>)
    /\ ci' = ci + 1
    /\ pc' = "cand_loop"
    /\ UNCHANGED <<inputs, elsewhere,
                   si, sorted_spans, fetch_locals, score_locals,
                   final_result, error, calls>>

-----------------------------------------------------------------------------
(* rerank_candidates, final assembly (lines 188-192).                      *)

\* The labels built from the zipped pairs instead of from all spans.
predictedlabelspans_zipped ==
    [k \in 1..ZipLen |-> spans[k].label \o " : " \o spans[k].type]

\* [span['label'] + ' : ' + span['type'] for span in spans]
predictedlabelspans ==
    [k \in 1..Len(spans) |-> spans[k].label \o " : " \o spans[k].type]

Assemble ==
    /\ pc = "assemble"
    /\ final_result' = [entitylinkingresults |-> sorted_spans,
                        predictedlabelspans  |-> predictedlabelspans,
                        question             |-> text]
    /\ pc' = "done"
    /\ UNCHANGED <<inputs, elsewhere,
                   si, ci, entity_scores, sorted_spans, fetch_locals,
                   score_locals, error, calls>>

Next ==
    \/ RerankTextMatchOnly
    \/ EnterScoring
    \/ SpanLoop
    \/ CandLoop
    \/ GetLeft
    \/ GetRight
    \/ Linearise
    \/ Score
    \/ AppendScore
    \/ Assemble

Spec == Init /\ [][Next]_vars

-----------------------------------------------------------------------------
(* The HTTP layer (non-streaming-api.py): one long-lived process with one  *)
(* EntityLinker, answering the requests to /get_final_result and           *)
(* /link_entities one after the other.                                     *)

MaxRequests == 2

\* What the clients post, what span detection answers and what candidate
\* retrieval answers.
ServiceQuestions == {Question, ""}

ServiceSpanLists == SpanLists \cup {<<SpanAt(2), SpanAt(2)>>}

PerSpanCandidates == {<<>>, <<CandA, CandB>>}

ServiceCandidateLists == SeqsUpTo(PerSpanCandidates, MaxSpans)

ServiceEnvs == {<<"G2", Backend(<<-1, -3, -2>>, <<-2, -2>>)>>}

\* return jsonify(body), status
Reply(status, body) == [status |-> status, json |-> body]

\* {"error": message}
ErrorBody(message) == [kind |-> "error", error |-> message, result |-> NoResult]

\* jsonify(final_result)
ResultBody(result) == [kind |-> "result", error |-> "", result |-> result]

\* The response of the framework to an exception that leaves the handler:
\* status 500 with an HTML page, no JSON.
FrameworkError(e) ==
    Reply(500, [kind |-> "html", error |-> "", result |-> NoResult])

\* except Exception as e: return jsonify({"error": str(e)}), 500
JsonError(e) == Reply(500, ErrorBody(e))

\* The list of the call that returned last, as if sorted_spans outlived the
\* call.
SortedSpansOfLastCall ==
    IF prev.none THEN <<>> ELSE prev.result.entitylinkingresults

\* sorted_spans = [] (line 153)
FreshSortedSpans == <<>>

\* No call of rerank_candidates is in progress: no frame.
NoFrame ==
    /\ pc' = "idle"
    /\ si' = 1
    /\ ci' = 1
    /\ entity_scores' = <<>>
    /\ sorted_spans' = <<>>
    /\ response_left' = NoResponse
    /\ response_right' = NoResponse
    /\ entity_neighborhood' = <<>>
    /\ full_inputs' = <<>>
    /\ scores' = <<>>
    /\ score_evidence' = <<>>
    /\ final_result' = NoResult
    /\ error' = "none"
    /\ calls' = <<>>

\* The handler's locals are gone with the handler.
NoHandler ==
    /\ text' = ""
    /\ spans' = <<>>
    /\ entity_candidates' = <<>>
    /\ text_match_only' = FALSE
    /\ route' = "none"
    /\ data' = NoData
    /\ caught' = "none"
    /\ http_pc' = "idle"

\* entity_linker.rerank_candidates(text, spans, entity_candidates, flag):
\* a new frame of rerank_candidates (lines 147-153).
CallRerank(t, sp, cands, flag) ==
    /\ text' = t
    /\ spans' = sp
    /\ entity_candidates' = cands
    /\ text_match_only' = flag
    /\ pc' = "start"
    /\ si' = 1
    /\ ci' = 1
    /\ entity_scores' = <<>>
    /\ sorted_spans' = FreshSortedSpans
    /\ response_left' = NoResponse
    /\ response_right' = NoResponse
    /\ entity_neighborhood' = <<>>
    /\ full_inputs' = <<>>
    /\ scores' = <<>>
    /\ score_evidence' = <<>>
    /\ final_result' = NoResult
    /\ error' = "none"
    /\ calls' = <<>>

\* A request that fails validation: status 400, the handler returns.
BadRequest(message) ==
    /\ reply' = Reply(400, ErrorBody(message))
    /\ served' = served + 1
    /\ NoHandler
    /\ NoFrame

InitService ==
    /\ HttpLayerAtRest
    /\ TokenizerAsLoaded
    /\ NoOverlap
    /\ UiAsLoaded
    /\ NoRequestPosted
    /\ NoBatch
    /\ \E env \in ServiceEnvs :
          /\ kg = env[1]
          /\ yes_logprob = env[2]
    /\ text = ""
    /\ spans = <<>>
    /\ entity_candidates = <<>>
    /\ text_match_only = FALSE
    /\ pc = "idle"
    /\ si = 1
    /\ ci = 1
    /\ entity_scores = <<>>
    /\ sorted_spans = <<>>
    /\ response_left = NoResponse
    /\ response_right = NoResponse
    /\ entity_neighborhood = <<>>
    /\ full_inputs = <<>>
    /\ scores = <<>>
    /\ score_evidence = <<>>
    /\ final_result = NoResult
    /\ error = "none"
    /\ calls = <<>>

\* `not x` for x = data.get(key): the key is missing (None), or its value
\* is the empty string or the empty list.
Not(x, empty) == ~x.given \/ x.value = empty

\* The handler's copy of the body it validated.
Data(q, sp, cands, flag) ==
    [question |-> q, spans |-> sp, entity_candidates |-> cands,
     text_match_only |-> flag]

\* get_final_result up to its try block, with the spans check left out.
get_final_result_spans_unchecked(body) ==
    IF Not(body.question, "")
    THEN BadRequest("Missing 'question' field in JSON body")
    ELSE IF Not(body.entity_candidates, <<>>)
    THEN BadRequest("Missing 'entity_candidates' field in JSON body")
    ELSE /\ route' = "/get_final_result"
         /\ data' = Data(body.question.value, body.spans.value,
                         body.entity_candidates.value, FALSE)
         /\ CallRerank(body.question.value, body.spans.value,
                       body.entity_candidates.value, FALSE)
         /\ http_pc' = "rerank_candidates"
         /\ UNCHANGED <<caught, reply, served>>

\* get_final_result (lines 55-68): validation, then the call of
\* rerank_candidates without the flag.
get_final_result(body) ==
    IF Not(body.question, "")
    THEN BadRequest("Missing 'question' field in JSON body")
    ELSE IF Not(body.spans, <<>>)
    THEN BadRequest("Missing 'spans' field in JSON body")
    ELSE IF Not(body.entity_candidates, <<>>)
    THEN BadRequest("Missing 'entity_candidates' field in JSON body")
    ELSE /\ route' = "/get_final_result"
         /\ data' = Data(body.question.value, body.spans.value,
                         body.entity_candidates.value, FALSE)
         /\ CallRerank(body.question.value, body.spans.value,
                       body.entity_candidates.value, FALSE)
         /\ http_pc' = "rerank_candidates"
         /\ UNCHANGED <<caught, reply, served>>

\* link_entities (lines 78-85): validation; text_match_only defaults to
\* False.
link_entities(body) ==
    IF Not(body.question, "")
    THEN BadRequest("Missing 'question' field in JSON body")
    ELSE LET flag == IF body.text_match_only.given
                     THEN body.text_match_only.value ELSE FALSE
         IN  /\ route' = "/link_entities"
             /\ data' = Data(body.question.value, <<>>, <<>>, flag)
             /\ text' = body.question.value
             /\ text_match_only' = flag
             /\ http_pc' = "detect_spans_types"
             /\ NoFrame
             /\ UNCHANGED <<spans, entity_candidates, caught, reply, served>>

\* get_spans (lines 19-24): validation.
get_spans(body) ==
    IF Not(body.question, "")
    THEN BadRequest("Missing 'question' field in JSON body")
    ELSE /\ route' = "/get_spans"
         /\ data' = Data(body.question.value, <<>>, <<>>, FALSE)
         /\ text' = body.question.value
         /\ http_pc' = "get_spans"
         /\ NoFrame
         /\ UNCHANGED <<spans, entity_candidates, text_match_only,
                        caught, reply, served>>

\* get_candidates (lines 33-42): validation.
get_candidates(body) ==
    IF Not(body.question, "")
    THEN BadRequest("Missing 'question' field in JSON body")
    ELSE IF Not(body.spans, <<>>)
    THEN BadRequest("Missing 'spans' field in JSON body")
    ELSE /\ route' = "/get_candidates"
         /\ data' = Data(body.question.value, body.spans.value, <<>>, FALSE)
         /\ text' = body.question.value
         /\ spans' = body.spans.value
         /\ http_pc' = "get_candidates"
         /\ NoFrame
         /\ UNCHANGED <<entity_candidates, text_match_only,
                        caught, reply, served>>

\* POST /get_final_result, with any of the bodies the service is given.
GetFinalResult ==
    /\ http_pc = "idle"
    /\ served < MaxRequests
    /\ \E q \in ServiceQuestions, sp \in ServiceSpanLists,
          cands \in ServiceCandidateLists :
          get_final_result([question |-> Given(q), spans |-> Given(sp),
                            entity_candidates |-> Given(cands)])
    /\ raised_in' = "none"
    /\ UNCHANGED <<kg, yes_logprob, prev, pad_token, aside>>

\* POST /link_entities, with any of the bodies the service is given.
LinkEntities ==
    /\ http_pc = "idle"
    /\ served < MaxRequests
    /\ \E q \in ServiceQuestions, flag \in BOOLEAN :
          link_entities([question |-> Given(q),
                         text_match_only |-> Given(flag)])
    /\ raised_in' = "none"
    /\ UNCHANGED <<kg, yes_logprob, prev, pad_token, aside>>

\* spans = entity_linker.detect_spans_types(text) (line 86): it sets the
\* tokenizer's pad token (entity_linker.py line 47), then returns the spans
\* the model's answer holds, or the model raises.
DetectSpansTypes ==
    /\ http_pc = "detect_spans_types"
    /\ pad_token' = EosToken
    /\ \/ \E sp \in ServiceSpanLists :
             /\ spans' = sp
             /\ http_pc' = "fetch_candidates"
             /\ UNCHANGED <<caught, raised_in>>
       \/ /\ caught' = "RuntimeError"
          /\ raised_in' = "detect_spans_types"
          /\ http_pc' = "except"
          /\ UNCHANGED spans
    /\ UNCHANGED <<text, entity_candidates, text_match_only, kg, yes_logprob,
                   pc, si, ci, entity_scores, sorted_spans, fetch_locals,
                   score_locals, final_result, error, calls, route, data,
                   reply, served, prev, aside>>

\* candidate_results = entity_linker.fetch_candidates(text, spans); the
\* conversion to (uri, label, type) tuples; the call of rerank_candidates
\* with the flag (lines 87-95). One list per span, or an exception of the
\* search index.
FetchCandidates ==
    /\ http_pc = "fetch_candidates"
    /\ \/ \E cands \in ServiceCandidateLists :
             /\ Len(cands) = Len(spans)
             /\ CallRerank(text, spans, cands, text_match_only)
             /\ http_pc' = "rerank_candidates"
             /\ UNCHANGED <<caught, raised_in>>
       \/ /\ caught' = "ConnectionError"
          /\ raised_in' = "fetch_candidates"
          /\ http_pc' = "except"
          /\ UNCHANGED <<text, spans, entity_candidates, text_match_only,
                         pc, si, ci, entity_scores, sorted_spans, fetch_locals,
                         score_locals, final_result, error, calls>>
    /\ UNCHANGED <<kg, yes_logprob, route, data, reply, served, prev,
                   pad_token, aside>>

\* return jsonify(final_result) (lines 69-70, 96)
ReturnResult ==
    /\ http_pc = "rerank_candidates"
    /\ pc = "done"
    /\ reply' = Reply(200, ResultBody(final_result))
    /\ served' = served + 1
    /\ prev' = [none |-> FALSE, text |-> text, spans |-> spans,
                entity_candidates |-> entity_candidates,
                text_match_only |-> text_match_only,
                pad_token |-> pad_token, result |-> final_result]
    /\ NoHandler
    /\ NoFrame
    /\ UNCHANGED <<kg, yes_logprob, raised_in, pad_token, aside>>

\* except Exception as e: ... return jsonify({"error": str(e)}), 500
\* (lines 71-73, 98-100)
Except ==
    /\ \/ http_pc = "except"
       \/ http_pc = "rerank_candidates" /\ pc = "raised"
    /\ LET e == IF http_pc = "except" THEN caught ELSE error
       IN  reply' = JsonError(e)
    /\ raised_in' = IF http_pc = "except" THEN raised_in
                                          ELSE "rerank_candidates"
    /\ served' = served + 1
    /\ NoHandler
    /\ NoFrame
    /\ UNCHANGED <<kg, yes_logprob, prev, pad_token, aside>>

NextService ==
    \/ GetFinalResult
    \/ LinkEntities
    \/ DetectSpansTypes
    \/ FetchCandidates
    \/ Next
    \/ ReturnResult
    \/ Except

SpecService == InitService /\ [][NextService]_vars

-----------------------------------------------------------------------------
(* The four routes of the HTTP layer, each given one request whose body    *)
(* holds, holds empty or lacks each of the fields the handlers read.       *)

\* {"error": ...} aside, a handler answers with a JSON list (the spans, the
\* candidate lists) or with the final result.
ListBody(list) ==
    [kind |-> "list", error |-> "", result |-> NoResult, list |-> list]

Routes == {"/get_spans", "/get_candidates", "/get_final_result",
           "/link_entities"}

\* The requests posted: every route, and for every field the key missing,
\* its value empty, or a value as the UI sends it.
Requests ==
    [route : Routes,
     question : {Missing(""), Given(""), Given(Question)},
     spans : {Missing(<<>>), Given(<<>>), Given(<<SpanAt(1)>>)},
     entity_candidates : {Missing(<<>>), Given(<<>>),
                          Given(<<<<CandA, CandB>>>>)},
     text_match_only : {Missing(FALSE), Given(TRUE)}]

\* No call of rerank_candidates has been made.
NoCall ==
    /\ text = ""
    /\ spans = <<>>
    /\ entity_candidates = <<>>
    /\ text_match_only = FALSE
    /\ pc = "idle"
    /\ si = 1
    /\ ci = 1
    /\ entity_scores = <<>>
    /\ sorted_spans = <<>>
    /\ response_left = NoResponse
    /\ response_right = NoResponse
    /\ entity_neighborhood = <<>>
    /\ full_inputs = <<>>
    /\ scores = <<>>
    /\ score_evidence = <<>>
    /\ final_result = NoResult
    /\ error = "none"
    /\ calls = <<>>

InitRoutes ==
    /\ HttpLayerAtRest
    /\ TokenizerAsLoaded
    /\ NoOverlap
    /\ UiAsLoaded
    /\ NoBatch
    /\ NoCall
    /\ request \in Requests
    /\ \E env \in ServiceEnvs :
          /\ kg = env[1]
          /\ yes_logprob = env[2]

\* @app.route(..., methods=["POST"]): the request reaches the handler of
\* its route, which validates it.
Route ==
    /\ http_pc = "idle"
    /\ served = 0
    /\ request.route \in Routes
    /\ CASE request.route = "/get_spans" -> get_spans(request)
         [] request.route = "/get_candidates" -> get_candidates(request)
         [] request.route = "/get_final_result" -> get_final_result(request)
         [] request.route = "/link_entities" -> link_entities(request)
    /\ raised_in' = "none"
    /\ UNCHANGED <<kg, yes_logprob, prev, pad_token, aside>>

\* The try block of get_spans (lines 24-29): detect_spans_types sets the
\* pad token and returns the spans, which are sent, or it raises.
GetSpansTry ==
    /\ http_pc = "get_spans"
    /\ pad_token' = EosToken
    /\ \/ \E sp \in ServiceSpanLists :
             /\ reply' = Reply(200, ListBody(sp))
             /\ served' = served + 1
             /\ NoHandler
             /\ UNCHANGED raised_in
       \/ /\ caught' = "RuntimeError"
          /\ raised_in' = "detect_spans_types"
          /\ http_pc' = "except"
          /\ UNCHANGED <<text, spans, entity_candidates, text_match_only,
                         route, data, reply, served>>
    /\ UNCHANGED <<kg, yes_logprob, pc, si, ci, entity_scores, sorted_spans,
                   fetch_locals, score_locals, final_result, error, calls,
                   prev, aside>>

\* The try block of get_candidates (lines 42-51): fetch_candidates returns
\* one list of hits per span, which are converted and sent, or it raises.
GetCandidatesTry ==
    /\ http_pc = "get_candidates"
    /\ \/ \E cands \in ServiceCandidateLists :
             /\ Len(cands) = Len(spans)
             /\ reply' = Reply(200, ListBody(cands))
             /\ served' = served + 1
             /\ NoHandler
             /\ UNCHANGED raised_in
       \/ /\ caught' = "ConnectionError"
          /\ raised_in' = "fetch_candidates"
          /\ http_pc' = "except"
          /\ UNCHANGED <<text, spans, entity_candidates, text_match_only,
                         route, data, reply, served>>
    /\ UNCHANGED <<kg, yes_logprob, pc, si, ci, entity_scores, sorted_spans,
                   fetch_locals, score_locals, final_result, error, calls,
                   prev, pad_token, aside>>

NextRoutes ==
    \/ Route
    \/ GetSpansTry
    \/ GetCandidatesTry
    \/ DetectSpansTypes
    \/ FetchCandidates
    \/ Next
    \/ ReturnResult
    \/ Except

SpecRoutes == InitRoutes /\ [][NextRoutes]_vars

-----------------------------------------------------------------------------
(* Two invocations of rerank_candidates on the one EntityLinker            *)
(* (non-streaming-api.py line 12) that overlap in time. The variables of   *)
(* rerank_candidates hold the frame of the invocation that is running, the *)
(* frame of the other one is parked; a switch of threads swaps them. The   *)
(* first invocation has been run alone before, with the same arguments.    *)

Request(t, sp, cands, flag) ==
    [text |-> t, spans |-> sp, entity_candidates |-> cands,
     text_match_only |-> flag]

OverlapRequests ==
    { Request(Question, <<SpanAt(1)>>, <<<<CandA, CandB>>>>, FALSE),
      Request(Question, <<SpanAt(1), SpanAt(2)>>, <<<<CandB>>, <<CandA>>>>,
              FALSE),
      Request(Question, <<SpanAt(1)>>, <<<<CandB, CandA>>>>, TRUE) }

\* The frame of the invocation that is running: its arguments, its locals,
\* what it returned or raised, and the calls it has made.
Frame ==
    [none |-> FALSE, text |-> text, spans |-> spans,
     entity_candidates |-> entity_candidates,
     text_match_only |-> text_match_only, pc |-> pc, si |-> si, ci |-> ci,
     entity_scores |-> entity_scores, sorted_spans |-> sorted_spans,
     response_left |-> response_left, response_right |-> response_right,
     entity_neighborhood |-> entity_neighborhood,
     full_inputs |-> full_inputs, scores |-> scores,
     score_evidence |-> score_evidence, final_result |-> final_result,
     error |-> error, calls |-> calls]

\* The frame of an invocation that has just been called (lines 147-153).
FreshFrame(r) ==
    [none |-> FALSE, text |-> r.text, spans |-> r.spans,
     entity_candidates |-> r.entity_candidates,
     text_match_only |-> r.text_match_only, pc |-> "start", si |-> 1,
     ci |-> 1, entity_scores |-> <<>>, sorted_spans |-> <<>>,
     response_left |-> NoResponse, response_right |-> NoResponse,
     entity_neighborhood |-> <<>>, full_inputs |-> <<>>, scores |-> <<>>,
     score_evidence |-> <<>>, final_result |-> NoResult, error |-> "none",
     calls |-> <<>>]

\* One list shared by all invocations, as if sorted_spans were an attribute
\* of the reranker.
SharedSortedSpans(frame) == sorted_spans

\* sorted_spans = [] (line 153) is a local: each invocation has its own.
OwnSortedSpans(frame) == frame.sorted_spans

InitOverlap ==
    /\ HttpLayerAtRest
    /\ TokenizerAsLoaded
    /\ NoOverlap
    /\ UiAsLoaded
    /\ NoRequestPosted
    /\ NoBatch
    /\ \E env \in ServiceEnvs :
          /\ kg = env[1]
          /\ yes_logprob = env[2]
    /\ \E r \in OverlapRequests :
          /\ text = r.text
          /\ spans = r.spans
          /\ entity_candidates = r.entity_candidates
          /\ text_match_only = r.text_match_only
    /\ pc = "start"
    /\ si = 1
    /\ ci = 1
    /\ entity_scores = <<>>
    /\ sorted_spans = <<>>
    /\ response_left = NoResponse
    /\ response_right = NoResponse
    /\ entity_neighborhood = <<>>
    /\ full_inputs = <<>>
    /\ scores = <<>>
    /\ score_evidence = <<>>
    /\ final_result = NoResult
    /\ error = "none"
    /\ calls = <<>>

\* The invocation that ran alone has returned; the same call is made again
\* while the handler of another request calls rerank_candidates too.
StartOverlap ==
    /\ parked = NoFrameParked
    /\ pc = "done"
    /\ alone' = final_result
    /\ CallRerank(text, spans, entity_candidates, text_match_only)
    /\ \E r \in OverlapRequests : parked' = FreshFrame(r)
    /\ UNCHANGED <<kg, yes_logprob, service_vars, pad_token, running,
                   scorer_vars, routes_vars, ui_vars>>

\* The running thread is suspended and the other one, which has not
\* finished, is resumed.
Switch ==
    /\ parked # NoFrameParked
    /\ parked.pc \notin {"done", "raised"}
    /\ parked' = Frame
    /\ running' = 3 - running
    /\ text' = parked.text
    /\ spans' = parked.spans
    /\ entity_candidates' = parked.entity_candidates
    /\ text_match_only' = parked.text_match_only
    /\ pc' = parked.pc
    /\ si' = parked.si
    /\ ci' = parked.ci
    /\ entity_scores' = parked.entity_scores
    /\ sorted_spans' = OwnSortedSpans(parked)
    /\ response_left' = parked.response_left
    /\ response_right' = parked.response_right
    /\ entity_neighborhood' = parked.entity_neighborhood
    /\ full_inputs' = parked.full_inputs
    /\ scores' = parked.scores
    /\ score_evidence' = parked.score_evidence
    /\ final_result' = parked.final_result
    /\ error' = parked.error
    /\ calls' = parked.calls
    /\ UNCHANGED <<kg, yes_logprob, service_vars, pad_token, alone,
                   scorer_vars, routes_vars, ui_vars>>

\* A third request reaches detect_spans_types meanwhile, which sets the pad
\* token of the shared tokenizer (entity_linker.py line 47).
SetPadToken ==
    /\ parked # NoFrameParked
    /\ pad_token # EosToken
    /\ pad_token' = EosToken
    /\ UNCHANGED <<inputs, pc, si, ci, entity_scores, sorted_spans,
                   fetch_locals, score_locals, final_result, error, calls,
                   service_vars, aside>>

NextOverlap ==
    \/ Next
    \/ StartOverlap
    \/ Switch
    \/ SetPadToken

SpecOverlap == InitOverlap /\ [][NextOverlap]_vars

-----------------------------------------------------------------------------
(* compute_avg_yes_score at the level of tokens (lines 43-65): the batch   *)
(* is truncated and padded by the tokenizer, for each prompt the 'yes'     *)
(* log-probability is read at one position of its row, and the mean and    *)
(* the best line are taken. Positions count from 0, as the tensor's index  *)
(* does. The method takes whatever list of lines its caller holds, the     *)
(* empty list included.                                                    *)

\* max_length=128 (line 43)
max_length == 128

\* The longest batch explored, and by how many tokens a prompt is shorter
\* than max_length at most.
MaxLines == 3

MaxShorter == 2

\* The token counts of the prompts of a batch: up to MaxShorter below the
\* limit, at the limit, or above it; no prompt at all for no line at all.
PromptLens ==
    UNION {[1..n -> (max_length - MaxShorter)..(max_length + 1)] :
              n \in 0..MaxLines}

\* truncation=True, max_length=128: the tokens a prompt keeps.
Truncated(len) == Min(len, max_length)

\* The length of the padded batch: padding=True pads to the longest row.
RECURSIVE Longest(_)
Longest(lens) ==
    IF lens = <<>> THEN 0
    ELSE LET rest == Longest(Tail(lens))
             head == Truncated(Head(lens))
         IN  IF head >= rest THEN head ELSE rest

\* The attention mask of one row: 1 on the prompt's tokens, 0 on padding,
\* which the tokenizer puts on its padding side.
MaskRow(len, seq_len, side) ==
    [q \in 1..seq_len |->
        IF side = "right"
        THEN IF q <= Truncated(len) THEN 1 ELSE 0
        ELSE IF q > seq_len - Truncated(len) THEN 1 ELSE 0]

\* inputs = self.tokenizer(full_inputs, return_tensors='pt', padding=True,
\*                         truncation=True, max_length=128)
Tokenizer(lens, side) ==
    [k \in 1..Len(lens) |-> MaskRow(lens[k], Longest(lens), side)]

\* input_len = attention_mask.sum().item(), the number of ones of the row;
\* the position read is input_len - 1 (lines 55-59).
input_len_minus_1(row) == Cardinality({q \in 1..Len(row) : row[q] = 1}) - 1

InitScorer ==
    /\ HttpLayerAtRest
    /\ TokenizerAsLoaded
    /\ NoOverlap
    /\ UiAsLoaded
    /\ NoRequestPosted
    /\ NoCall
    /\ \E env \in ServiceEnvs :
          /\ kg = env[1]
          /\ yes_logprob = env[2]
    /\ scorer_pc = "tokenize"
    /\ padding_side \in {"right", "left"}
    /\ prompt_lens \in PromptLens
    /\ attention_mask = <<>>
    /\ read_at = <<>>
    /\ mean_taken = "none"
    /\ scorer_exit = "none"

\* Line 43: the batch is tokenized, truncated and padded. What the
\* tokenizer and the model do with a batch of no prompt is the libraries'
\* choice: they raise, or they hand back tensors without rows.
Tokenize ==
    /\ scorer_pc = "tokenize"
    /\ \/ /\ attention_mask' = Tokenizer(prompt_lens, padding_side)
          /\ scorer_pc' = "read"
          /\ UNCHANGED scorer_exit
       \/ /\ prompt_lens = <<>>
          /\ scorer_pc' = "end"
          /\ scorer_exit' = "IndexError"
          /\ UNCHANGED attention_mask
    /\ UNCHANGED <<padding_side, prompt_lens, read_at, mean_taken>>
    /\ UNCHANGED <<inputs, pc, si, ci, entity_scores, sorted_spans,
                   fetch_locals, score_locals, final_result, error, calls,
                   service_vars, pad_token, overlap_vars, routes_vars,
                   ui_vars>>

\* One turn of the loop of lines 53-60: the position read for prompt i.
ReadYesLogProb ==
    /\ scorer_pc = "read"
    /\ Len(read_at) < Len(attention_mask)
    /\ LET i == Len(read_at) + 1
       IN  read_at' = Append(read_at, input_len_minus_1(attention_mask[i]))
    /\ UNCHANGED <<scorer_pc, padding_side, prompt_lens, attention_mask,
                   mean_taken, scorer_exit>>
    /\ UNCHANGED <<inputs, pc, si, ci, entity_scores, sorted_spans,
                   fetch_locals, score_locals, final_result, error, calls,
                   service_vars, pad_token, overlap_vars, routes_vars,
                   ui_vars>>

\* Lines 62-65 after the loop: avg_score = float(np.mean(scores)), which is
\* NaN for no score at all; best_index = scores.index(max(scores)), where
\* max raises ValueError on an empty list; return avg_score, best_sentence.
ReturnAvgAndBest ==
    /\ scorer_pc = "read"
    /\ Len(read_at) = Len(attention_mask)
    /\ IF read_at = <<>>
       THEN /\ mean_taken' = "nan"
            /\ scorer_exit' = "ValueError"
       ELSE /\ mean_taken' = "number"
            /\ scorer_exit' = "returned"
    /\ scorer_pc' = "end"
    /\ UNCHANGED <<padding_side, prompt_lens, attention_mask, read_at>>
    /\ UNCHANGED <<inputs, pc, si, ci, entity_scores, sorted_spans,
                   fetch_locals, score_locals, final_result, error, calls,
                   service_vars, pad_token, overlap_vars, routes_vars,
                   ui_vars>>

NextScorer ==
    \/ Tokenize
    \/ ReadYesLogProb
    \/ ReturnAvgAndBest

SpecScorer == InitScorer /\ [][NextScorer]_vars

-----------------------------------------------------------------------------
(* linearise_neighbourhood on whatever rows the endpoint may serve:        *)
(* rerank_candidates is at line 173 for its first candidate, fetch_one_hop *)
(* has returned the two JSON documents.                                    *)

\* The longest list of rows per direction in the requests with several
\* rows.
MaxRows == 2

\* What a row may hold under a key: nothing, an object without 'value', or
\* a value: blank, padded with whitespace, with the anonymous-node marker.
SubjectObjectFields ==
    { [absent |-> TRUE], [type |-> "bnode"], Val(""), Val(" \n"),
      Val(" A\t"), Val("_:bn1"), Val(" x_:bn2") }

PredicateFields ==
    { [absent |-> TRUE], [type |-> "uri"], Val("  "), Val("\np "),
      Val("_:bn9") }

\* A row of a result: the keys that hold something, with what they hold.
Binding(s, p_key, p, o) ==
    LET keys == (IF "absent" \in DOMAIN s THEN {} ELSE {"sLabel"})
                \cup (IF "absent" \in DOMAIN p THEN {} ELSE {p_key})
                \cup (IF "absent" \in DOMAIN o THEN {} ELSE {"oLabel"})
    IN  [k \in keys |-> IF k = "sLabel" THEN s
                        ELSE IF k = "oLabel" THEN o ELSE p]

\* Every single row, under either predicate key.
AnyRows ==
    { Binding(s, p_key, p, o) :
        s \in SubjectObjectFields, p_key \in {"p", "pLabel"},
        p \in PredicateFields, o \in SubjectObjectFields }

\* A few rows for the longer lists: two different rows that yield the same
\* line, another kept row, and a dropped row.
FewRows(p_key) ==
    { Binding(Val("A"), p_key, Val("p"), Val("B")),
      Binding(Val(" A"), p_key, Val("p "), Val("B")),
      Binding(Val("C"), p_key, Val("q"), Val("A")),
      Binding(Val("_:bn1"), p_key, Val("p"), Val("B")) }

JsonOf(rows) == [kind |-> "json", json |-> [results |-> [bindings |-> rows]]]

\* The pairs of row lists explored: one arbitrary row on one side and at
\* most one usual row on the other, or up to MaxRows of the few rows on
\* each side.
RowLists ==
    { <<<<row>>, other>> :
         row \in AnyRows, other \in SeqsUpTo(FewRows("pLabel"), 1) }
    \cup { <<other, <<row>>>> :
         row \in AnyRows, other \in SeqsUpTo(FewRows("p"), 1) }
    \cup (SeqsUpTo(FewRows("p"), MaxRows)
             \X SeqsUpTo(FewRows("pLabel"), MaxRows))

InitLinearise ==
    /\ HttpLayerAtRest
    /\ TokenizerAsLoaded
    /\ NoOverlap
    /\ UiAsLoaded
    /\ NoRequestPosted
    /\ NoBatch
    /\ \E env \in ServiceEnvs :
          /\ kg = env[1]
          /\ yes_logprob = env[2]
    /\ text = Question
    /\ spans = <<SpanAt(1)>>
    /\ entity_candidates = <<<<CandA>>>>
    /\ text_match_only = FALSE
    /\ pc = "linearise"
    /\ si = 1
    /\ ci = 1
    /\ entity_scores = <<>>
    /\ sorted_spans = <<>>
    /\ \E rows \in RowLists :
          /\ response_left = JsonOf(rows[1])
          /\ response_right = JsonOf(rows[2])
    /\ entity_neighborhood = <<>>
    /\ full_inputs = <<>>
    /\ scores = <<>>
    /\ score_evidence = <<>>
    /\ final_result = NoResult
    /\ error = "none"
    /\ calls = << <<"fetch_one_hop", 1, 1>>,
                  <<"GET", 1, 1, "left", "json">>,
                  <<"GET", 1, 1, "right", "json">> >>

NextLinearise == Linearise

SpecLinearise == InitLinearise /\ [][NextLinearise]_vars

-----------------------------------------------------------------------------
(* The UI (entitylinker.py): the state of one client and its submit        *)
(* handler send_text, an async generator that runs from yield to yield and *)
(* from await to await. The framework runs the handlers of one client one  *)
(* after the other, so set_text and a second send_text wait for the end of *)
(* a running send_text. Each request the handler sends is answered with    *)
(* JSON, with an error status, or not at all (timeout).                    *)

\* The number of submissions followed.
MaxRuns == 2

\* Everything but the UI, which no step of the UI touches.
without_ui == <<text, spans, entity_candidates, text_match_only, kg,
                yes_logprob, pc, si, ci, entity_scores, sorted_spans,
                response_left, response_right, entity_neighborhood,
                full_inputs, scores, score_evidence, final_result, error,
                calls, service_vars, pad_token, overlap_vars, scorer_vars,
                routes_vars>>

\* response.raise_for_status() passed and response.json() gave j; the JSON
\* has the shape the stage reads, or some other shape.
JsonAnswer(j) == [kind |-> "json", wellformed |-> TRUE, json |-> j, str |-> ""]

OtherJson == [kind |-> "json", wellformed |-> FALSE, json |-> <<>>,
              str |-> "unexpected JSON"]

\* raise_for_status() raised httpx.HTTPStatusError, or the request raised
\* httpx.ReadTimeout, whose str() is empty.
HTTPStatusError == [kind |-> "HTTPStatusError", wellformed |-> FALSE,
                    json |-> <<>>, str |-> "Server error '500'"]

ReadTimeout == [kind |-> "ReadTimeout", wellformed |-> FALSE, json |-> <<>>,
                str |-> ""]

Failures == {HTTPStatusError, ReadTimeout}

\* What /get_spans, /get_candidates and /get_final_result may answer.
SpansAnswers == {JsonAnswer(<<>>), JsonAnswer(<<SpanAt(1)>>)} \cup Failures

CandidatesAnswers ==
    {JsonAnswer(<<<<>>>>), JsonAnswer(<<<<CandA, CandB>>>>), OtherJson}
    \cup Failures

FinalResultOf(result) ==
    [entitylinkingresults |->
         <<[label |-> "Biemann", result |-> result, type |-> "person"]>>,
     predictedlabelspans |-> <<"Biemann : person">>,
     question |-> Question]

FinalResultAnswers ==
    {JsonAnswer(FinalResultOf(<<>>)),
     JsonAnswer(FinalResultOf(
         <<<<Frac(-20, 1), <<UriA, "Chris Biemann",
                             "https://dblp.org/rdf/schema#Person",
                             "Chris Biemann -- authored -- a paper">>>>>>)),
     OtherJson}
    \cup Failures

\* [{"span_id": idx, "uri": uri, "label": label, "type": type_}
\*  for idx, group in enumerate(candidates) for uri, label, type_ in group]
RECURSIVE flat_candidates(_, _)
flat_candidates(groups, idx) ==
    IF idx >= Len(groups) THEN <<>>
    ELSE [m \in 1..Len(groups[idx + 1]) |->
             [span_id |-> idx,
              uri     |-> groups[idx + 1][m][1],
              label   |-> groups[idx + 1][m][2],
              type    |-> groups[idx + 1][m][3]]]
         \o flat_candidates(groups, idx + 1)

\* [FinalResultAtom(uri=atom[1][0], ..., score=atom[0], span_id=idx)
\*  for idx, result in enumerate(final_results['entitylinkingresults'])
\*  for atom in result['result']]
RECURSIVE FinalResultAtoms(_, _)
FinalResultAtoms(results, idx) ==
    IF idx >= Len(results) THEN <<>>
    ELSE [m \in 1..Len(results[idx + 1].result) |->
             [uri      |-> results[idx + 1].result[m][2][1],
              label    |-> results[idx + 1].result[m][2][2],
              type     |-> results[idx + 1].result[m][2][3],
              sentence |-> results[idx + 1].result[m][2][4],
              score    |-> results[idx + 1].result[m][1],
              span_id  |-> idx]]
         \o FinalResultAtoms(results, idx + 1)

\* client.post(url, json=payload, ...)
Post(url, payload) == [route |-> url, json |-> payload]

InitUI ==
    /\ HttpLayerAtRest
    /\ TokenizerAsLoaded
    /\ NoOverlap
    /\ NoBatch
    /\ NoCall
    /\ NoRequestPosted
    /\ UiAsLoaded
    /\ \E env \in ServiceEnvs :
          /\ kg = env[1]
          /\ yes_logprob = env[2]

\* set_text (lines 49-54)
SetText ==
    /\ ui_pc = "idle"
    /\ \E t \in {"", Question} :
          /\ t # self_text
          /\ self_text' = t
    /\ UNCHANGED <<self_spans, self_candidates, final_results, updates,
                   progress, is_loading, error_message, ui_pc, candidates,
                   sent, failed, stored, runs>>
    /\ UNCHANGED without_ui

\* send_text, lines 62-68: the reset for a new submission.
SendText ==
    /\ ui_pc = "idle"
    /\ runs < MaxRuns
    /\ error_message' = ""
    /\ is_loading' = TRUE
    /\ self_spans' = <<>>
    /\ self_candidates' = <<>>
    /\ final_results' = <<>>
    /\ updates' = <<"Starting entity linking process...">>
    /\ ui_pc' = "stage1"
    /\ candidates' = Unbound
    /\ sent' = <<>>
    /\ failed' = "none"
    /\ runs' = runs + 1
    /\ UNCHANGED <<self_text, progress, stored>>
    /\ UNCHANGED without_ui

\* Lines 72-80: the request to /get_spans is sent.
RequestSpans ==
    /\ ui_pc = "stage1"
    /\ progress' = 0
    /\ updates' = Append(updates, "Requesting detected spans from API...")
    /\ sent' = Append(sent, Post("/get_spans", [question |-> self_text]))
    /\ ui_pc' = "await_spans"
    /\ UNCHANGED <<self_text, self_spans, self_candidates, final_results,
                   is_loading, error_message, candidates, failed, stored,
                   runs>>
    /\ UNCHANGED without_ui

\* The handler returns from an except block of stage 1 or 2 (lines 86-93,
\* 117-123).
FailAndReturn(name, message, e, back_to) ==
    /\ error_message' = message \o e.str
    /\ updates' = Append(updates, message \o e.str)
    /\ is_loading' = FALSE
    /\ progress' = back_to
    /\ failed' = name
    /\ ui_pc' = "idle"

\* Lines 81-93: the answer of /get_spans.
SpansAnswered ==
    /\ ui_pc = "await_spans"
    /\ \E answer \in SpansAnswers :
          IF answer.kind = "json"
          THEN /\ self_spans' = answer.json
               /\ updates' = Append(updates,
                      "Spans received (" \o ToString(Len(answer.json))
                         \o " found).")
               /\ progress' = 33
               /\ ui_pc' = "stage2"
               /\ UNCHANGED <<is_loading, error_message, failed>>
          ELSE /\ FailAndReturn("spans",
                      "An unexpected error occurred during span detection: ",
                      answer, 0)
               /\ UNCHANGED self_spans
    /\ UNCHANGED <<self_text, self_candidates, final_results, candidates,
                   sent, stored, runs>>
    /\ UNCHANGED without_ui

\* The gate being open whatever the spans are.
HasSpansIgnored == TRUE

\* if self.spans: (line 97)
HasSpans == self_spans # <<>>

\* Lines 97-106: the request to /get_candidates is sent.
RequestCandidates ==
    /\ ui_pc = "stage2"
    /\ HasSpans
    /\ updates' = Append(updates, "Requesting candidates from API...")
    /\ sent' = Append(sent, Post("/get_candidates",
                                 [question |-> self_text,
                                  spans |-> self_spans]))
    /\ ui_pc' = "await_candidates"
    /\ UNCHANGED <<self_text, self_spans, self_candidates, final_results,
                   progress, is_loading, error_message, candidates, failed,
                   stored, runs>>
    /\ UNCHANGED without_ui

\* Lines 124-126: no span, no request.
SkipCandidates ==
    /\ ui_pc = "stage2"
    /\ ~HasSpans
    /\ updates' = Append(updates,
           "Skipping candidate fetching: No spans were detected.")
    /\ ui_pc' = "stage3"
    /\ UNCHANGED <<self_text, self_spans, self_candidates, final_results,
                   progress, is_loading, error_message, candidates, sent,
                   failed, stored, runs>>
    /\ UNCHANGED without_ui

\* Lines 107-123: the answer of /get_candidates. candidates is assigned as
\* soon as the JSON is parsed, before the flattening can fail.
CandidatesAnswered ==
    /\ ui_pc = "await_candidates"
    /\ \E answer \in CandidatesAnswers :
          IF answer.kind = "json" /\ answer.wellformed
          THEN /\ candidates' = [bound |-> TRUE, value |-> answer.json]
               /\ updates' = Append(updates,
                      "Candidates received (" \o ToString(Len(answer.json))
                         \o " found).")
               /\ self_candidates' = flat_candidates(answer.json, 0)
               /\ progress' = 66
               /\ ui_pc' = "stage3"
               /\ UNCHANGED <<is_loading, error_message, failed>>
          ELSE /\ candidates' = IF answer.kind = "json"
                                THEN [bound |-> TRUE, value |-> answer.json]
                                ELSE candidates
               /\ FailAndReturn("candidates",
                      "An unexpected error occurred during candidate fetching: ",
                      answer, 33)
               /\ UNCHANGED self_candidates
    /\ UNCHANGED <<self_text, self_spans, final_results, sent, stored, runs>>
    /\ UNCHANGED without_ui

\* The except block of stage 3 (lines 159-166): no return, the handler goes
\* on to its last lines.
FailFinalResult(e) ==
    /\ error_message' =
          "An unexpected error occurred during final result processing: "
             \o e.str
    /\ updates' = Append(updates,
          "An unexpected error occurred during final result processing: "
             \o e.str)
    /\ progress' = 66
    /\ failed' = "final_result"
    /\ ui_pc' = "finish"
    /\ UNCHANGED is_loading

\* if self.candidates: (line 130)
HasCandidates == self_candidates # <<>>

\* Reading a local that was never assigned.
UnboundLocalError ==
    [kind |-> "UnboundLocalError", wellformed |-> FALSE, json |-> <<>>,
     str |-> "cannot access local variable 'candidates'"]

\* Lines 130-143: the request to /get_final_result is sent, with the local
\* candidates as payload.
RequestFinalResult ==
    /\ ui_pc = "stage3"
    /\ HasCandidates
    /\ IF candidates.bound
       THEN /\ updates' = Append(updates,
                   "Requesting final results from API (this may take longer)...")
            /\ sent' = Append(sent, Post("/get_final_result",
                                         [question |-> self_text,
                                          spans |-> self_spans,
                                          entity_candidates |->
                                              candidates.value]))
            /\ ui_pc' = "await_final_result"
            /\ UNCHANGED <<progress, error_message, failed, is_loading>>
       ELSE /\ FailFinalResult(UnboundLocalError)
            /\ UNCHANGED sent
    /\ UNCHANGED <<self_text, self_spans, self_candidates, final_results,
                   candidates, stored, runs>>
    /\ UNCHANGED without_ui

\* Lines 167-169: no candidate, no request.
SkipFinalResult ==
    /\ ui_pc = "stage3"
    /\ ~HasCandidates
    /\ updates' = Append(updates,
           "Skipping final results: No candidates were found.")
    /\ ui_pc' = "finish"
    /\ UNCHANGED <<self_text, self_spans, self_candidates, final_results,
                   progress, is_loading, error_message, candidates, sent,
                   failed, stored, runs>>
    /\ UNCHANGED without_ui

\* Lines 144-166: the answer of /get_final_result.
FinalResultAnswered ==
    /\ ui_pc = "await_final_result"
    /\ \E answer \in FinalResultAnswers :
          IF answer.kind = "json" /\ answer.wellformed
          THEN /\ final_results' =
                      FinalResultAtoms(answer.json.entitylinkingresults, 0)
               /\ stored' = runs
               /\ updates' = Append(updates, "Final results received.")
               /\ progress' = 100
               /\ ui_pc' = "finish"
               /\ UNCHANGED <<is_loading, error_message, failed>>
          ELSE /\ FailFinalResult(answer)
               /\ UNCHANGED <<final_results, stored>>
    /\ UNCHANGED <<self_text, self_spans, self_candidates, candidates, sent,
                   runs>>
    /\ UNCHANGED without_ui

\* The last lines as if the except block of stage 3 had returned like the
\* other two: is_loading is left as it is.
FinishAfterReturn ==
    /\ ui_pc = "finish"
    /\ IF failed = "final_result"
       THEN UNCHANGED <<is_loading, updates>>
       ELSE /\ is_loading' = FALSE
            /\ updates' = Append(updates, "Process completed.")
    /\ ui_pc' = "idle"
    /\ UNCHANGED <<self_text, self_spans, self_candidates, final_results,
                   progress, error_message, candidates, sent, failed, stored,
                   runs>>
    /\ UNCHANGED without_ui

\* Lines 172-174: the end of the handler.
Finish ==
    /\ ui_pc = "finish"
    /\ is_loading' = FALSE
    /\ updates' = Append(updates, "Process completed.")
    /\ ui_pc' = "idle"
    /\ UNCHANGED <<self_text, self_spans, self_candidates, final_results,
                   progress, error_message, candidates, sent, failed, stored,
                   runs>>
    /\ UNCHANGED without_ui

\* The steps of a running send_text.
HandlerStep ==
    \/ RequestSpans
    \/ SpansAnswered
    \/ RequestCandidates
    \/ SkipCandidates
    \/ CandidatesAnswered
    \/ RequestFinalResult
    \/ SkipFinalResult
    \/ FinalResultAnswered
    \/ Finish

NextUI ==
    \/ SetText
    \/ SendText
    \/ HandlerStep

SpecUI == InitUI /\ [][NextUI]_vars

\* The event loop resumes a send_text that can go on, and every request
\* sent gets its answer, error or timeout; nobody has to submit.
SpecUILive == SpecUI /\ WF_vars(HandlerStep)

-----------------------------------------------------------------------------
(* Properties.                                                             *)

Done == pc = "done"

Results == final_result.entitylinkingresults

\* The uri, label and type an entry carries.
TripleOf(entry) == <<entry[2][1], entry[2][2], entry[2][3]>>

\* The lines the endpoint's graph yields for a URI when both requests are
\* answered.
NeighborhoodOf(uri) ==
    linearise_neighbourhood(OkBody(kg, uri, "left").json,
                            OkBody(kg, uri, "right").json)

C2_ScoresNonIncreasing ==
    ~text_match_only =>
        /\ \A k \in 1..Len(sorted_spans) :
              \A m \in 1..(Len(sorted_spans[k].result) - 1) :
                  Geq(sorted_spans[k].result[m][1],
                      sorted_spans[k].result[m + 1][1])
        /\ Done => Results = sorted_spans

\* C2 witness: a scoring call returned a span whose two candidates were
\* scored in increasing order and come out in decreasing order.
C2_Witness ==
    /\ Done
    /\ ~text_match_only
    /\ \E k \in 1..Len(Results) :
          /\ Len(Results[k].result) = 2
          /\ Gt(Results[k].result[1][1], Results[k].result[2][1])
          /\ TripleOf(Results[k].result[1]) = entity_candidates[k][2]
          /\ TripleOf(Results[k].result[2]) = entity_candidates[k][1]

\* The number of positions of a sequence that hold a value.
Count(seq, v) == Cardinality({m \in 1..Len(seq) : seq[m] = v})

\* C3: in scoring mode a span's result list holds exactly the input
\* candidates of that span whose linearized neighborhood is non-empty, as
\* often as they occur in the input, with uri, label and type unchanged; a
\* candidate with an empty neighborhood is neither scored nor present.
C3_ExactlyNonEmptyNeighborhoods ==
    (Done /\ ~text_match_only) =>
        \A k \in 1..Len(Results) :
            LET input   == entity_candidates[k]
                triples == [m \in 1..Len(Results[k].result) |->
                               TripleOf(Results[k].result[m])]
            IN  /\ \A m \in 1..Len(triples) :
                      /\ Count(input, triples[m]) > 0
                      /\ NeighborhoodOf(triples[m][1]) # <<>>
                /\ \A m \in 1..Len(input) :
                      IF NeighborhoodOf(input[m][1]) # <<>>
                      THEN /\ Count(triples, input[m]) = Count(input, input[m])
                           /\ Count(calls, <<"compute_avg_yes_score", k, m>>) = 1
                      ELSE /\ Count(triples, input[m]) = 0
                           /\ Count(calls, <<"compute_avg_yes_score", k, m>>) = 0

\* C3 witness: a scoring call returned a span that lost one of its two
\* candidates to an empty neighborhood.
C3_Witness ==
    /\ Done
    /\ ~text_match_only
    /\ \E k \in 1..Len(Results) :
          /\ Len(entity_candidates[k]) = 2
          /\ Len(Results[k].result) = 1

\* The sum of the first n values the backend gives for an entity name.
RECURSIVE SumFirst(_, _)
SumFirst(f, n) == IF n = 0 THEN 0 ELSE f[n] + SumFirst(f, n - 1)

ScenarioLine ==
    "Chris Biemann -- https://dblp.org/rdf/schema#affiliation -- Universitaet Hamburg"

\* The spec's scenario: candidates [A, B], A's three lines score
\* [-0.1, -0.3, -0.2], B's neighborhood is empty.
Scenario ==
    /\ ~text_match_only
    /\ kg = "G1"
    /\ Len(spans) >= 1
    /\ Len(entity_candidates) >= 1
    /\ entity_candidates[1] = <<CandA, CandB>>
    /\ yes_logprob[UriA] = <<-1, -3, -2>>

\* C4: the score attached to a scored candidate is the arithmetic mean of
\* the per-line 'yes' log-probabilities of all of its evidence lines; in the
\* scenario the span's result holds A only, with score -0.2 and the line
\* that scored -0.1 as evidence sentence.
C4_ScoreIsMean ==
    /\ pc = "scored" =>
          /\ Len(scores) = Len(entity_neighborhood)
          /\ score_evidence[1].num * Len(scores)
                = SumSeq(scores) * score_evidence[1].den
    /\ (Done /\ ~text_match_only) =>
          \A k \in 1..Len(Results) :
              \A m \in 1..Len(Results[k].result) :
                  LET entry == Results[k].result[m]
                      n     == Len(NeighborhoodOf(entry[2][1]))
                  IN  entry[1].num * n
                         = SumFirst(yes_logprob[entry[2][1]], n) * entry[1].den
    /\ (Done /\ Scenario) =>
          Results[1].result =
              << <<[num |-> -2, den |-> 1],
                   <<CandA[1], CandA[2], CandA[3], ScenarioLine>>>> >>

\* C4 witness: the scenario's call returned.
C4_Witness ==
    /\ Done
    /\ Scenario
    /\ Len(Results[1].result) = 1

\* The first position of the maximum of the first n values of f.
FirstArgMax(f, n) ==
    CHOOSE b \in 1..n :
        /\ \A k \in 1..n : f[k] <= f[b]
        /\ \A l \in 1..(b - 1) : f[l] < f[b]

\* C5: the evidence sentence returned for a candidate is the evidence line
\* with the maximum per-line log-probability, and among several lines with
\* that maximum the one that comes first in the linearized order.
C5_EvidenceIsFirstMaxLine ==
    /\ pc = "scored" =>
          score_evidence[2]
             = entity_neighborhood[FirstArgMax(scores, Len(scores))]
    /\ (Done /\ ~text_match_only) =>
          \A k \in 1..Len(Results) :
              \A m \in 1..Len(Results[k].result) :
                  LET entry == Results[k].result[m]
                      lines == NeighborhoodOf(entry[2][1])
                  IN  entry[2][4]
                         = lines[FirstArgMax(yes_logprob[entry[2][1]],
                                             Len(lines))]

\* C5 witness: a batch was scored in which the first (outgoing) line and
\* the last (incoming) line share the maximum.
C5_Witness ==
    /\ pc = "scored"
    /\ Len(scores) = 3
    /\ scores[1] = scores[3]
    /\ scores[2] < scores[1]
    /\ entity_neighborhood[1] = ScenarioLine

\* The entries of a result list that have a given score, and the input
\* candidates that got that score, each in list order.
TriplesScoring(result, v) ==
    LET Has(entry) == entry[1] = v
        kept == SelectSeq(result, Has)
    IN  [m \in 1..Len(kept) |-> TripleOf(kept[m])]

InputsScoring(input, result, v) ==
    LET Got(cand) == \E m \in 1..Len(result) :
                         TripleOf(result[m]) = cand /\ result[m][1] = v
    IN  SelectSeq(input, Got)

\* C6: the descending sort is stable: the surviving candidates of a span
\* that have equal scores appear in the output in the same relative order
\* as in the span's input candidate list.
C6_SortIsStable ==
    (Done /\ ~text_match_only) =>
        \A k \in 1..Len(Results) :
            \A m \in 1..Len(Results[k].result) :
                LET v == Results[k].result[m][1]
                IN  TriplesScoring(Results[k].result, v)
                       = InputsScoring(entity_candidates[k], Results[k].result, v)

\* C6 witness: a scoring call returned a span with two different candidates
\* of equal score.
C6_Witness ==
    /\ Done
    /\ ~text_match_only
    /\ \E k \in 1..Len(Results) :
          /\ Len(Results[k].result) = 2
          /\ Results[k].result[1][1] = Results[k].result[2][1]
          /\ TripleOf(Results[k].result[1]) # TripleOf(Results[k].result[2])

\* C7: in either mode predictedlabelspans has exactly as many entries as
\* there are input spans, the i-th being the i-th span's label, then " : ",
\* then its type, however many candidates each span has or keeps.
C7_PredictedLabelSpans ==
    Done =>
        /\ Len(final_result.predictedlabelspans) = Len(spans)
        /\ \A k \in 1..Len(spans) :
              final_result.predictedlabelspans[k]
                 = spans[k].label \o " : " \o spans[k].type

\* C7 witness: a call returned for two spans of which one has no candidate
\* list and the other keeps no candidate.
C7_Witness ==
    /\ Done
    /\ Len(spans) = 2
    /\ Len(Results) = 1
    /\ Results[1].result = <<>>
    /\ final_result.predictedlabelspans[2] = "NeurIPS : venue"

\* The positions of the history that hold a call of an operation.
CallsOf(op) == {a \in 1..Len(calls) : calls[a][1] = op}

\* The statement of C8 for the k-th span.
SpanHasEntry(k) ==
    /\ Results[k].label = spans[k].label
    /\ Results[k].type = spans[k].type
    /\ (k <= Len(entity_candidates) /\ ~text_match_only
        /\ \A m \in 1..Len(entity_candidates[k]) :
              NeighborhoodOf(entity_candidates[k][m][1]) = <<>>)
          => Results[k].result = <<>>
    /\ (k <= Len(entity_candidates) /\ entity_candidates[k] = <<>>)
          => /\ Results[k].result = <<>>
             /\ \A a \in 1..Len(calls) : calls[a][2] # k

\* C8: every input span has an entry in entitylinkingresults, with its
\* label and type, also when its candidate list is empty or all of its
\* candidates are dropped (then with an empty result list); for a span with
\* zero input candidates no fetch and no scoring call is made.
C8_EverySpanHasEntry ==
    Done =>
        /\ Len(Results) = Len(spans)
        /\ \A k \in 1..Len(spans) : SpanHasEntry(k)

\* C8, for the spans that are paired with a candidate list: these do have
\* their entry.
C8_PairedSpansHaveEntry ==
    Done =>
        /\ Len(Results) = ZipLen
        /\ \A k \in 1..ZipLen : SpanHasEntry(k)

\* C9: a call with text_match_only = true never invokes fetch_one_hop,
\* linearise_neighbourhood or compute_avg_yes_score and sends no request
\* to the graph endpoint.
C9_TextMatchOnlyMakesNoCalls ==
    text_match_only => calls = <<>>

\* C9 witness: a text-match-only call over at least one candidate returned.
C9_Witness ==
    /\ Done
    /\ text_match_only
    /\ \E k \in 1..Len(Results) : Results[k].result # <<>>

\* C10: in scoring mode a failed neighborhood query (no connection, or a
\* body that is not JSON) ends the call with that error and without a
\* result, and no query is issued again: per candidate and direction the
\* endpoint is queried at most once.
C10_FetchErrorPropagates ==
    /\ (pc = "raised") <=> (error # "none")
    /\ pc = "raised" => (final_result = NoResult /\ ~ENABLED Next)
    /\ \A a \in CallsOf("GET") :
          /\ calls[a][5] = "ConnectionError"
                => (a = Len(calls) /\ error = "ConnectionError")
          /\ calls[a][5] = "not_json"
                => \/ error = "JSONDecodeError" /\ a >= Len(calls) - 1
                   \/ error = "ConnectionError" /\ a = Len(calls) - 1
                   \/ pc = "get_right" /\ a = Len(calls)
    /\ Cardinality({<<calls[a][2], calls[a][3], calls[a][4]>> :
                        a \in CallsOf("GET")})
          = Cardinality(CallsOf("GET"))

\* C10 witness: a query failed after an earlier candidate had been scored,
\* and the call ended with the error.
C10_Witness ==
    /\ pc = "raised"
    /\ error = "JSONDecodeError"
    /\ CallsOf("compute_avg_yes_score") # {}
    /\ final_result = NoResult

-----------------------------------------------------------------------------
(* Properties of the HTTP layer and of successive calls.                   *)

\* The exception each stage raises in the model.
ExceptionsOf(stage) ==
    IF stage = "detect_spans_types" THEN {"RuntimeError"}
    ELSE IF stage = "fetch_candidates" THEN {"ConnectionError"}
    ELSE {"ConnectionError", "JSONDecodeError"}

\* C11: on /get_final_result and /link_entities, whenever span detection,
\* candidate retrieval or reranking raises, the exception does not leave the
\* handler: the response is a JSON object with an 'error' field and status
\* 500, and after it the service accepts the next request on either route.
C11_ExceptionBecomesJson500 ==
    /\ (http_pc = "except" \/ pc = "raised") => ENABLED Except
    /\ (http_pc = "idle" /\ raised_in # "none") =>
          /\ reply.status = 500
          /\ reply.json.kind = "error"
          /\ reply.json.error \in ExceptionsOf(raised_in)
    /\ (http_pc = "idle" /\ served < MaxRequests) =>
          (ENABLED GetFinalResult /\ ENABLED LinkEntities)

\* C11 witness: a request whose reranking raised has been answered with the
\* error, and the service is ready for the request that follows.
C11_Witness ==
    /\ http_pc = "idle"
    /\ raised_in = "rerank_candidates"
    /\ reply = Reply(500, ErrorBody("JSONDecodeError"))
    /\ served < MaxRequests
    /\ ENABLED LinkEntities

\* The call in progress has the arguments of the call that returned last.
SameCallAsLast ==
    /\ ~prev.none
    /\ prev.text = text
    /\ prev.spans = spans
    /\ prev.entity_candidates = entity_candidates
    /\ prev.text_match_only = text_match_only

\* C12: a second call of rerank_candidates with the same text, spans,
\* candidate lists and mode as a call that returned before it, against the
\* same deterministic endpoint and backend, returns the identical result
\* (scores, evidence sentences, order): the first call leaves nothing behind
\* that changes the second.
C12_SameArgumentsSameResult ==
    (pc = "done" /\ SameCallAsLast) => final_result = prev.result

\* C12 witness: the second of two identical scoring calls returned, with a
\* span whose two candidates are scored and have evidence sentences; the
\* tokenizer's pad token was set between the two calls.
C12_Witness ==
    /\ pc = "done"
    /\ SameCallAsLast
    /\ prev.pad_token # pad_token
    /\ ~text_match_only
    /\ \E k \in 1..Len(Results) :
          /\ Len(Results[k].result) = 2
          /\ Results[k].result[1][2][4] # ""

\* The frame of an invocation of the overlap, wherever it is.
FrameOf(n) == IF running = n THEN Frame ELSE parked

\* The two invocations were called with the same arguments.
SameArguments(f, g) ==
    /\ f.text = g.text
    /\ f.spans = g.spans
    /\ f.entity_candidates = g.entity_candidates
    /\ f.text_match_only = g.text_match_only

\* C13: invocations of rerank_candidates that overlap in time on the one
\* linker do not interfere: an invocation returns what it returns when run
\* alone with the same arguments, whatever the other invocation does and
\* however the two are interleaved.
C13_OverlapDoesNotInterfere ==
    parked # NoFrameParked =>
        /\ FrameOf(1).pc = "done" => FrameOf(1).final_result = alone
        /\ (FrameOf(2).pc = "done" /\ SameArguments(FrameOf(1), FrameOf(2)))
              => FrameOf(2).final_result = alone

\* C13 witness: the first invocation returned a scored result after the
\* second one, with other arguments, had run in the middle of it, and the
\* pad token was set meanwhile.
C13_Witness ==
    /\ parked # NoFrameParked
    /\ running = 1
    /\ pc = "done"
    /\ ~text_match_only
    /\ Results[1].result # <<>>
    /\ parked.pc \in {"span_loop", "cand_loop", "score", "scored"}
    /\ parked.sorted_spans # <<>>
    /\ ~SameArguments(Frame, parked)
    /\ pad_token = EosToken

-----------------------------------------------------------------------------
(* Properties of the prompts.                                              *)

\* C14: no prompt built by format_input contains the word 'yes', the token
\* whose probability is read as the score.
C14_PromptNeverContainsYes ==
    \A k \in 1..Len(full_inputs) : ~Contains(full_inputs[k], "yes")

\* C14, as far as it goes: every prompt ends with "Answer:", so no answer
\* follows the question inside the prompt.
C14_PromptEndsWithAnswerColon ==
    \A k \in 1..Len(full_inputs) :
        SubSeq(full_inputs[k], Len(full_inputs[k]) - 6, Len(full_inputs[k]))
           = "Answer:"

\* C15: in scoring mode the candidate-name field of every prompt used to
\* score a candidate is that candidate's display label, the second component
\* of the candidate.
C15_PromptNamesDisplayLabel ==
    pc = "scored" =>
        \A k \in 1..Len(full_inputs) :
            full_inputs[k]
               = format_input(spans[si].label, text,
                              entity_candidates[si][ci][2],
                              entity_neighborhood[k])

\* C15, what the prompts hold instead: the candidate's URI, its first
\* component.
C15_PromptNamesUri ==
    pc = "scored" =>
        \A k \in 1..Len(full_inputs) :
            full_inputs[k]
               = format_input(spans[si].label, text,
                              entity_candidates[si][ci][1],
                              entity_neighborhood[k])

-----------------------------------------------------------------------------
(* Properties of the scorer at the level of tokens.                        *)

\* The position of the last real (non-padding) token of a row.
LastRealToken(row) ==
    CHOOSE q \in 0..(Len(row) - 1) :
        /\ row[q + 1] = 1
        /\ \A r \in (q + 1)..(Len(row) - 1) : row[r + 1] = 0

\* C16: for every sequence of a batch, also of a batch whose sequences have
\* different token lengths, the position at which the 'yes' log-probability
\* is read is the position of that sequence's own last real (non-padding)
\* token, for every padding layout the tokenizer produces.
C16_ReadsAtLastRealToken ==
    \A i \in 1..Len(read_at) :
        read_at[i] = LastRealToken(attention_mask[i])

\* C16, for a tokenizer that pads on the right: there the position read is
\* the row's last real token, for the shorter rows as well.
C16_RightPaddingReadsAtLastRealToken ==
    padding_side = "right" =>
        \A i \in 1..Len(read_at) :
            read_at[i] = LastRealToken(attention_mask[i])

-----------------------------------------------------------------------------
(* Properties of the linearization.                                        *)

\* The value a row holds under a key, "" if it holds none.
FieldOf(row, key) ==
    IF key \in DOMAIN row /\ "value" \in DOMAIN row[key]
    THEN row[key].value ELSE ""

\* A value trimmed of whitespace: what lies between its first and its last
\* character that is not whitespace.
Trimmed(v) ==
    LET solid == {k \in 1..Len(v) : SubSeq(v, k, k) \notin Whitespace}
    IN  IF solid = {} THEN ""
        ELSE LET first == CHOOSE k \in solid : \A l \in solid : k <= l
                 last  == CHOOSE k \in solid : \A l \in solid : l <= k
             IN  SubSeq(v, first, last)

\* A row is kept: subject, predicate and object are non-empty after
\* trimming, and neither subject nor object holds the marker.
IsKept(row, p_key) ==
    /\ Trimmed(FieldOf(row, "sLabel")) # ""
    /\ Trimmed(FieldOf(row, p_key)) # ""
    /\ Trimmed(FieldOf(row, "oLabel")) # ""
    /\ ~Contains(FieldOf(row, "sLabel"), "_:bn")
    /\ ~Contains(FieldOf(row, "oLabel"), "_:bn")

\* 'subject -- predicate -- object' from the trimmed values.
LineOf(row, p_key) ==
    Trimmed(FieldOf(row, "sLabel")) \o " -- " \o Trimmed(FieldOf(row, p_key))
        \o " -- " \o Trimmed(FieldOf(row, "oLabel"))

\* The kept rows of a list of rows, in order.
KeptRows(rows, p_key) ==
    LET Keep(row) == IsKept(row, p_key) IN SelectSeq(rows, Keep)

OutgoingRows == response_left.json.results.bindings

IncomingRows == response_right.json.results.bindings

\* linearise_neighbourhood has returned.
Linearised ==
    /\ calls # <<>>
    /\ calls[Len(calls)][1] = "linearise_neighbourhood"

\* The number of lines that are the line of a given row.
LinesOf(row, p_key) == Count(entity_neighborhood, LineOf(row, p_key))

\* C17: linearise_neighbourhood emits a line for a row if and only if the
\* row's subject, predicate and object are non-empty after trimming and
\* neither subject nor object contains '_:bn'; the line is exactly
\* 'subject -- predicate -- object' of the trimmed values; a row with the
\* marker or with a missing or blank field contributes nothing.
C17_LineIffKept ==
    Linearised =>
        /\ Len(entity_neighborhood)
              = Len(KeptRows(OutgoingRows, "p"))
                + Len(KeptRows(IncomingRows, "pLabel"))
        /\ \A k \in 1..Len(OutgoingRows) :
              IsKept(OutgoingRows[k], "p")
                 => LinesOf(OutgoingRows[k], "p") > 0
        /\ \A k \in 1..Len(IncomingRows) :
              IsKept(IncomingRows[k], "pLabel")
                 => LinesOf(IncomingRows[k], "pLabel") > 0
        /\ \A m \in 1..Len(entity_neighborhood) :
              \/ \E k \in 1..Len(OutgoingRows) :
                    /\ IsKept(OutgoingRows[k], "p")
                    /\ entity_neighborhood[m] = LineOf(OutgoingRows[k], "p")
              \/ \E k \in 1..Len(IncomingRows) :
                    /\ IsKept(IncomingRows[k], "pLabel")
                    /\ entity_neighborhood[m]
                          = LineOf(IncomingRows[k], "pLabel")

\* C17 witness: a row whose values are padded with whitespace and whose
\* predicate holds the marker yields its trimmed line, next to a row that
\* is dropped for the marker in its subject.
C17_Witness ==
    /\ Linearised
    /\ OutgoingRows = << Binding(Val(" A\t"), "p", Val("_:bn9"), Val(" A\t")) >>
    /\ IncomingRows = << Binding(Val("_:bn1"), "pLabel", Val("p"), Val("B")) >>
    /\ entity_neighborhood = << "A -- _:bn9 -- A" >>

\* The lines of a list of rows, one per row, in order.
LinesOfRows(rows, p_key) == [k \in 1..Len(rows) |-> LineOf(rows[k], p_key)]

\* C18: the sequence linearise_neighbourhood returns is the lines of the
\* kept outgoing rows in the order of the rows, followed by the lines of the
\* kept incoming rows in the order of the rows: nothing is reordered and
\* nothing deduplicated, two kept rows with the same line yield two lines.
C18_OutgoingThenIncomingInOrder ==
    Linearised =>
        entity_neighborhood
           = LinesOfRows(KeptRows(OutgoingRows, "p"), "p")
             \o LinesOfRows(KeptRows(IncomingRows, "pLabel"), "pLabel")

\* C18 witness: two different outgoing rows yield the same line twice, and
\* an incoming row that was served with the same values comes after them.
C18_Witness ==
    /\ Linearised
    /\ Len(OutgoingRows) = 2
    /\ OutgoingRows[1] # OutgoingRows[2]
    /\ entity_neighborhood = << "A -- p -- B", "A -- p -- B", "C -- q -- A",
                                "A -- p -- B" >>

-----------------------------------------------------------------------------
(* Properties of the order of processing.                                  *)

\* The candidate an entry of the history is about: span and position.
CandidateOf(a) == <<calls[a][2], calls[a][3]>>

\* The steps of one candidate, in the order of lines 169-181.
StepOf(a) ==
    IF calls[a][1] = "fetch_one_hop" THEN 1
    ELSE IF calls[a][1] = "GET" THEN (IF calls[a][4] = "left" THEN 2 ELSE 3)
    ELSE IF calls[a][1] = "linearise_neighbourhood" THEN 4
    ELSE 5

\* c is the first candidate in input order after span s.
FirstAfterSpan(s, c) ==
    /\ c[1] > s
    /\ c[1] <= ZipLen
    /\ c[2] = 1
    /\ \A m \in (s + 1)..(c[1] - 1) : entity_candidates[m] = <<>>

\* d is the candidate that follows c in input order.
FollowsInOrder(c, d) ==
    \/ d[1] = c[1] /\ d[2] = c[2] + 1 /\ d[2] <= Len(entity_candidates[c[1]])
    \/ c[2] = Len(entity_candidates[c[1]]) /\ FirstAfterSpan(c[1], d)

\* The candidate of entry a is through if the next entry is about another
\* candidate: it has been scored, or linearized and then skipped.
ScoredOrSkipped(a) == StepOf(a) \in {4, 5}

\* C19: in scoring mode processing is strictly sequential: spans in input
\* order, within a span the candidates in input order, for each candidate
\* the fetch (left request, right request), then the linearization, then the
\* scoring, and the fetch of the next candidate only after the current one
\* has been scored or skipped: no fetch overlaps a scoring batch.
C19_StrictlySequential ==
    ~text_match_only =>
        /\ calls # <<>> =>
              /\ StepOf(1) = 1
              /\ FirstAfterSpan(0, CandidateOf(1))
        /\ \A a \in 1..(Len(calls) - 1) :
              \/ /\ CandidateOf(a + 1) = CandidateOf(a)
                 /\ StepOf(a + 1) = StepOf(a) + 1
              \/ /\ StepOf(a + 1) = 1
                 /\ ScoredOrSkipped(a)
                 /\ FollowsInOrder(CandidateOf(a), CandidateOf(a + 1))
        /\ pc \in {"score", "scored"} =>
              /\ CandidateOf(Len(calls)) = <<si, ci>>
              /\ StepOf(Len(calls)) = (IF pc = "score" THEN 4 ELSE 5)
        /\ Done =>
              \A c \in (1..ZipLen) \X (1..MaxCands) :
                  c[2] <= Len(entity_candidates[c[1]])
                     => \E a \in 1..Len(calls) :
                           StepOf(a) = 1 /\ CandidateOf(a) = c

\* C19 witness: a call returned in which the first candidate of a span was
\* skipped, the second one scored, and the next span's candidate fetched
\* only then.
C19_Witness ==
    /\ Done
    /\ ~text_match_only
    /\ \E a, b \in 1..(Len(calls) - 1) :
          /\ calls[a] = <<"linearise_neighbourhood", 1, 1>>
          /\ calls[a + 1] = <<"fetch_one_hop", 1, 2>>
          /\ calls[b] = <<"compute_avg_yes_score", 1, 2>>
          /\ calls[b + 1] = <<"fetch_one_hop", 2, 1>>

-----------------------------------------------------------------------------
(* Properties of the independence of spans.                                *)

\* The call in progress and the call that returned last have the same text
\* and mode, and at position k the same span with the same candidates.
SharesSpanWithLast(k) ==
    /\ ~prev.none
    /\ prev.text = text
    /\ prev.text_match_only = text_match_only
    /\ k <= Len(prev.result.entitylinkingresults)
    /\ prev.spans[k] = spans[k]
    /\ prev.entity_candidates[k] = entity_candidates[k]

\* C20: spans do not interact: two calls with the same text and mode that
\* agree on one span and its candidate list at the same position, and differ
\* in the other spans and their candidates, return the identical entry for
\* the shared span.
C20_SpansDoNotInteract ==
    pc = "done" =>
        \A k \in 1..Len(Results) :
            SharesSpanWithLast(k)
               => Results[k] = prev.result.entitylinkingresults[k]

\* C20 witness: two scoring calls returned that share their second span and
\* its two scored candidates, and differ in the first span and in its
\* candidates.
C20_Witness ==
    /\ pc = "done"
    /\ ~text_match_only
    /\ Len(Results) = 2
    /\ SharesSpanWithLast(2)
    /\ Len(Results[2].result) = 2
    /\ prev.spans[1] # spans[1]
    /\ prev.entity_candidates[1] # entity_candidates[1]

\* C21 (the scorer): compute_avg_yes_score invoked with an empty list of
\* evidence lines treats the candidate as excluded: it takes no mean over
\* the empty list of scores and ends without raising.
C21_ScorerGuardsEmptyList ==
    (prompt_lens = <<>> /\ scorer_pc = "end") =>
        /\ mean_taken # "nan"
        /\ scorer_exit = "returned"

\* C21, what the scorer does with an empty list: it always ends in an
\* exception, so that no score of it reaches a caller.
C21_ScorerRaisesOnEmptyList ==
    (prompt_lens = <<>> /\ scorer_pc = "end") =>
        scorer_exit \in {"IndexError", "ValueError"}

\* C21 (the loop): rerank_candidates calls the scorer with a non-empty list
\* of lines only, and every score of a result list is the mean of at least
\* one line score.
C21_LoopNeverScoresEmptyNeighborhood ==
    /\ pc \in {"score", "scored"} => entity_neighborhood # <<>>
    /\ pc = "scored" => scores # <<>>
    /\ (Done /\ ~text_match_only) =>
          \A k \in 1..Len(Results) :
              \A e \in 1..Len(Results[k].result) :
                  NeighborhoodOf(Results[k].result[e][2][1]) # <<>>

\* C22: rerank_candidates pairs spans with candidate lists by position and
\* stops at the shorter of the two: entitylinkingresults has
\* min(number of spans, number of candidate lists) entries, the i-th
\* carrying the label and type of the i-th span and candidates drawn only
\* from the i-th candidate list, while predictedlabelspans covers all spans.
C22_ZipStopsAtShorter ==
    Done =>
        /\ Len(Results) = Min(Len(spans), Len(entity_candidates))
        /\ \A k \in 1..Len(Results) :
              /\ Results[k].label = spans[k].label
              /\ Results[k].type = spans[k].type
              /\ Len(Results[k].result) <= Len(entity_candidates[k])
              /\ \A e \in 1..Len(Results[k].result) :
                    \E m \in 1..Len(entity_candidates[k]) :
                        TripleOf(Results[k].result[e])
                           = entity_candidates[k][m]
        /\ Len(final_result.predictedlabelspans) = Len(spans)

\* C22 witness: a call returned for two spans and one candidate list, with
\* one entry that holds a scored candidate and two predicted label spans.
C22_Witness ==
    /\ Done
    /\ Len(spans) = 2
    /\ Len(entity_candidates) = 1
    /\ Len(Results) = 1
    /\ Results[1].result # <<>>
    /\ Len(final_result.predictedlabelspans) = 2

-----------------------------------------------------------------------------
(* Properties of the validation of requests.                               *)

\* The request lacks a field its route requires, or holds it empty.
Incomplete(r) ==
    \/ Not(r.question, "")
    \/ /\ r.route \in {"/get_candidates", "/get_final_result"}
       /\ Not(r.spans, <<>>)
    \/ /\ r.route = "/get_final_result"
       /\ Not(r.entity_candidates, <<>>)

\* C23: /get_spans, /get_candidates, /get_final_result and /link_entities
\* answer 400 with an 'error' field when 'question' is missing or empty,
\* /get_candidates and /get_final_result also when 'spans' is missing or
\* empty, /get_final_result also when 'entity_candidates' is missing or
\* empty; in each of these cases no span detection, candidate retrieval or
\* rerank operation of the linker is invoked.
C23_IncompleteRequestsRejected ==
    Incomplete(request) =>
        /\ http_pc = "idle"
        /\ pc = "idle"
        /\ calls = <<>>
        /\ raised_in = "none"
        /\ pad_token = PretrainedPadToken
        /\ IF served = 0
           THEN ENABLED Route
           ELSE /\ served = 1
                /\ reply.status = 400
                /\ reply.json.kind = "error"
                /\ reply.json.error # ""

\* C23 witness: /get_final_result was posted a question and spans with an
\* empty list of entity candidates, and has answered 400.
C23_Witness ==
    /\ request.route = "/get_final_result"
    /\ ~Not(request.question, "")
    /\ ~Not(request.spans, <<>>)
    /\ request.entity_candidates = Given(<<>>)
    /\ served = 1
    /\ reply.status = 400

-----------------------------------------------------------------------------
(* Properties of the UI's submit handler.                                  *)

\* The routes of the requests this run has sent, in order.
SentRoutes == [k \in 1..Len(sent) |-> sent[k].route]

StageOrder == <<"/get_spans", "/get_candidates", "/get_final_result">>

EndsWell ==
    /\ (ui_pc = "idle" /\ runs > 0) =>
          /\ is_loading = FALSE
          /\ failed # "none" => error_message # ""
    /\ failed = "spans" => SentRoutes = SubSeq(StageOrder, 1, 1)
    /\ failed = "candidates" => SentRoutes = SubSeq(StageOrder, 1, 2)
    /\ failed # "none" => ui_pc \in {"idle", "finish"}

\* C25: every run of send_text that gets an answer, an error or a timeout
\* from each request it sends eventually terminates with is_loading =
\* false, whichever stage fails or is skipped; and whenever a stage fails,
\* error_message is non-empty when the handler ends and no later stage's
\* request has been sent.
C25_TerminatesNotLoading ==
    /\ []EndsWell
    /\ (ui_pc # "idle") ~> (ui_pc = "idle" /\ is_loading = FALSE)

\* C25 witness: a run whose third stage failed has ended, not loading, with
\* an error message.
C25_Witness ==
    /\ ui_pc = "idle"
    /\ failed = "final_result"
    /\ is_loading = FALSE
    /\ error_message # ""
    /\ Len(sent) = 3

====
